---- MODULE Spec2Model ----
(***************************************************************************)
(* A model of the YAML engine of lib-common (src/core/yaml.c): the parser  *)
(* (block and flow data, tags, includes, variables, overrides, the         *)
(* presentation it records) and the packer (the writer state machine,      *)
(* overrides, variables, subfiles).                                        *)
(*                                                                         *)
(* Texts, paths and keys are sequences of one-character strings, so that   *)
(* the parser and the packer work character by character as the C code    *)
(* does.  The C heap is explicit: every yaml_data_t is a slot of `mem`,    *)
(* every yaml_seq_t/yaml_obj_t a container of `conts`, every presentation  *)
(* node an entry of `nodes`; a pointer is an index, 0 is NULL.  A struct   *)
(* assignment copies the record and shares what it points to, and a local  *)
(* variable of a C function is a slot that dies when the function returns. *)
(* Vectors never move their storage here: qvector's first allocation holds *)
(* more elements than any container of the model ever gets.                *)
(***************************************************************************)
EXTENDS Integers, Sequences, FiniteSets, TLC

VARIABLES
    fs,       \* the files on disk: a function from paths to contents
    input,    \* the call under study: its arguments
    env,      \* the parsing context after t_yaml_parse (heap included)
    pack,     \* the packing context after t_yaml_pack
    aux,      \* the second parse / pack of a round trip
    step      \* which API call comes next

vars == <<fs, input, env, pack, aux, step>>

(***************************************************************************)
(* Characters and strings                                                  *)
(***************************************************************************)

Digits == {"0", "1", "2", "3", "4", "5", "6", "7", "8", "9"}
Lower == {"a", "b", "c", "d", "e", "f", "g", "h", "i", "j", "k", "l", "m",
          "n", "o", "p", "q", "r", "s", "t", "u", "v", "w", "x", "y", "z"}
Upper == {"A", "B", "C", "D", "E", "F", "G", "H", "I", "J", "K", "L", "M",
          "N", "O", "P", "Q", "R", "S", "T", "U", "V", "W", "X", "Y", "Z"}

isdigit(c) == c \in Digits
isalpha(c) == c \in Lower \cup Upper
isalnum(c) == isalpha(c) \/ isdigit(c)
isspace(c) == c \in {" ", "\n", "\t", "\r"}
\* printable ASCII, as isprint(): the control characters are the only
\* non-printable characters of the model's alphabet
isprint(c) == c \notin {"\n", "\t", "\r", ""}

tolower(c) ==
    CASE c = "T" -> "t" [] c = "R" -> "r" [] c = "U" -> "u" [] c = "E" -> "e"
      [] c = "F" -> "f" [] c = "A" -> "a" [] c = "L" -> "l" [] c = "S" -> "s"
      [] c = "N" -> "n" [] c = "I" -> "i" [] OTHER -> c

\* lstr_ascii_iequal
lstr_ascii_iequal(s, t) ==
    /\ Len(s) = Len(t)
    /\ \A i \in 1..Len(s) : tolower(s[i]) = tolower(t[i])

\* lstr_startswith
lstr_startswith(s, p) ==
    /\ Len(p) <= Len(s)
    /\ SubSeq(s, 1, Len(p)) = p

\* index of the first c in s at or after position i, 0 when there is none
RECURSIVE IndexFrom(_, _, _)
IndexFrom(s, c, i) ==
    IF i > Len(s) THEN 0
    ELSE IF s[i] = c THEN i
    ELSE IndexFrom(s, c, i + 1)

\* ps_get_span(&ctype_isalnum): end (exclusive) of the run of alphanumeric
\* characters of s that starts at i
RECURSIVE SpanAlnum(_, _)
SpanAlnum(s, i) ==
    IF i > Len(s) \/ ~isalnum(s[i]) THEN i ELSE SpanAlnum(s, i + 1)

\* lstr_trim: drop leading and trailing spaces
RECURSIVE lstr_ltrim(_)
lstr_ltrim(s) ==
    IF s # <<>> /\ isspace(s[1]) THEN lstr_ltrim(Tail(s)) ELSE s

RECURSIVE lstr_rtrim(_)
lstr_rtrim(s) ==
    IF s # <<>> /\ isspace(s[Len(s)]) THEN lstr_rtrim(SubSeq(s, 1, Len(s) - 1))
    ELSE s

lstr_trim(s) == lstr_rtrim(lstr_ltrim(s))

\* concatenation of a sequence of strings
RECURSIVE Concat(_)
Concat(ss) == IF ss = <<>> THEN <<>> ELSE Head(ss) \o Concat(Tail(ss))

\* decimal digits of a natural number ("%d", "%ju")
DigitOf(n) ==
    CASE n = 0 -> "0" [] n = 1 -> "1" [] n = 2 -> "2" [] n = 3 -> "3"
      [] n = 4 -> "4" [] n = 5 -> "5" [] n = 6 -> "6" [] n = 7 -> "7"
      [] n = 8 -> "8" [] OTHER -> "9"

ValueOf(c) == CHOOSE n \in 0..9 : DigitOf(n) = c

RECURSIVE FmtNat(_)
FmtNat(n) == IF n < 10 THEN <<DigitOf(n)>>
             ELSE FmtNat(n \div 10) \o <<DigitOf(n % 10)>>

RECURSIVE ParseNat(_, _)
ParseNat(s, acc) ==
    IF s = <<>> THEN acc ELSE ParseNat(Tail(s), acc * 10 + ValueOf(Head(s)))

(***************************************************************************)
(* The heap: yaml_data_t slots, containers, presentation nodes             *)
(***************************************************************************)

\* RETHROW(x): when the call x failed, its result is what the caller returns;
\* K is the rest of the caller, given the context that x returns
Try(x, K(_)) == IF x.res < 0 THEN x ELSE K(x)

\* a local variable: K is the code that follows its initialisation to v
With(v, K(_)) == K(v)

NoSpan == [fid |-> 0, s |-> 0, e |-> 0]

\* a yaml_data_t after p_clear()
ClearData ==
    [type |-> "none", stype |-> "none", s |-> <<>>, n |-> 0, b |-> FALSE,
     d |-> "", has_tag |-> FALSE, tag |-> <<>>, span |-> NoSpan, cont |-> 0, pres |-> 0]

\* a yaml__presentation_node__t after iop_init()
EmptyNode ==
    [prefix_comments |-> <<>>, inline_comment |-> <<>>, empty_lines |-> 0,
     flow_mode |-> FALSE, has_vwv |-> FALSE, value_with_variables |-> <<>>,
     included |-> 0]

\* a yaml_seq_t / yaml_obj_t: `items` are the elements of `datas` or the
\* yaml_key_data_t of `fields` (key, key_span, the slot of the data, the key
\* presentation), `pres_nodes` the presentation nodes of a sequence
EmptyCont == [items |-> <<>>, pres_nodes |-> <<>>]

NoErr == [pfx |-> "", msg |-> "", fid |-> 0, s |-> 0, e |-> 0, names |-> <<>>]

NullLoc == [k |-> "null", i |-> 0]
DataLoc(slot) == [k |-> "data", i |-> slot]
CellLoc(c) == [k |-> "cell", i |-> c]

\* what a write through a pointer to a dead local can do, "lost": the write
\* lands in unused stack and nothing sees it, "crash": it lands in a live
\* frame and the call never returns normally
UBOutcomes == {"lost", "crash"}

\* result codes of the model: 0 and -1 are the C return values, Crashed says
\* the call did not return (failed assertion, NULL dereference, corrupted
\* stack)
Crashed == -2

\* t_new / a local yaml_data_t: a fresh slot
AllocData(e) == [e EXCEPT !.mem = Append(@, ClearData), !.ret = Len(e.mem) + 1]
AllocCont(e) == [e EXCEPT !.conts = Append(@, EmptyCont), !.ret = Len(e.conts) + 1]
AllocNode(e) == [e EXCEPT !.nodes = Append(@, EmptyNode), !.ret = Len(e.nodes) + 1]
AllocCell(e) == [e EXCEPT !.cells = Append(@, 0), !.ret = Len(e.cells) + 1]

\* the end of the lifetime of a local yaml_data_t
KillData(e, slot) == [e EXCEPT !.dead = @ \cup {slot}]

\* *loc for a yaml__presentation_node__t ** loc
LocGet(e, loc) ==
    IF loc.k = "data" THEN e.mem[loc.i].pres
    ELSE IF loc.k = "cell" THEN e.cells[loc.i]
    ELSE 0

\* a pointer into a local whose function has returned
Stale(e, slot) == slot \in e.dead

\* *loc = node.  Through a stale pointer the store is undefined behaviour:
\* it crashes the call, or it lands in the dead slot, which nothing reads
LocSet(e, loc, node) ==
    IF loc.k = "data" THEN
        IF Stale(e, loc.i) /\ e.ub = "crash" THEN [e EXCEPT !.res = Crashed]
        ELSE [e EXCEPT !.mem[loc.i].pres = node]
    ELSE [e EXCEPT !.cells[loc.i] = node]

(***************************************************************************)
(* Parsing context: stream, positions, errors                              *)
(***************************************************************************)

Text(e) == e.texts[e.fid]

ps_done(e) == e.ps > Len(Text(e))
ps_has(e, n) == e.ps + n - 1 <= Len(Text(e))
\* ps_peekc: the next character, "" (EOF) at the end of the stream
ps_peekc(e) == IF ps_done(e) THEN "" ELSE Text(e)[e.ps]
CharAt(e, i) == IF i > Len(Text(e)) THEN "" ELSE Text(e)[i]

yaml_env_get_column_nb(e) == e.ps - e.pos_newline + 1

yaml_env_skipc(e) == IF ps_done(e) THEN e ELSE [e EXCEPT !.ps = @ + 1]

yaml_span_to_lstr(e, span) ==
    IF span.fid = 0 THEN <<>> ELSE SubSeq(e.texts[span.fid], span.s, span.e - 1)

yaml_env_set_err_at(e, span, pfx, msg) ==
    [e EXCEPT !.err = [pfx |-> pfx, msg |-> msg, fid |-> span.fid,
                       s |-> span.s, e |-> span.e, names |-> <<>>],
              !.res = -1]

yaml_env_set_err(e, pfx, msg) ==
    yaml_env_set_err_at(e, [fid |-> e.fid, s |-> e.ps, e |-> e.ps + 1], pfx, msg)

YAML_ERR_BAD_KEY == "invalid key"
YAML_ERR_BAD_STRING == "expected string"
YAML_ERR_MISSING_DATA == "missing data"
YAML_ERR_WRONG_DATA == "wrong type of data"
YAML_ERR_WRONG_INDENT == "wrong indentation"
YAML_ERR_WRONG_OBJECT == "wrong object"
YAML_ERR_TAB_CHARACTER == "tab character detected"
YAML_ERR_INVALID_TAG == "invalid tag"
YAML_ERR_EXTRA_DATA == "extra characters after data"
YAML_ERR_INVALID_INCLUDE == "invalid include"
YAML_ERR_INVALID_OVERRIDE == "cannot change types of data in override"

yaml_env_start_data_with_pos(e, type, pos_start, out) ==
    LET d == [ClearData EXCEPT !.type = type,
                               !.span = [fid |-> e.fid, s |-> pos_start,
                                         e |-> pos_start]]
    IN IF e.has_pres /\ e.next_node # 0
       THEN [e EXCEPT !.mem[out] = [d EXCEPT !.pres = e.next_node],
                      !.next_node = 0]
       ELSE [e EXCEPT !.mem[out] = d]

yaml_env_start_data(e, type, out) ==
    yaml_env_start_data_with_pos(e, type, e.ps, out)

yaml_env_end_data_with_pos(e, pos_end, out) ==
    LET e1 == [e EXCEPT !.mem[out].span.e = pos_end]
    IN IF e.has_pres THEN [e1 EXCEPT !.last_node = DataLoc(out)] ELSE e1

yaml_env_end_data(e, out) == yaml_env_end_data_with_pos(e, e.ps, out)

(***************************************************************************)
(* Presentation utils                                                      *)
(***************************************************************************)

\* the node *pres->last_node, created when missing; e.ret is the node.
\* assert (pres->last_node): a NULL last_node stops the call
t_yaml_env_pres_get_current_node(e) ==
    IF e.last_node.k = "null" THEN [e EXCEPT !.res = Crashed, !.ret = 0]
    ELSE IF e.last_node.k = "data" /\ Stale(e, e.last_node.i) /\ e.ub = "crash"
    THEN [e EXCEPT !.res = Crashed, !.ret = 0]
    ELSE IF LocGet(e, e.last_node) # 0 THEN [e EXCEPT !.ret = LocGet(e, e.last_node)]
    ELSE With(AllocNode(e), LAMBDA e1 :
              [LocSet(e1, e.last_node, e1.ret) EXCEPT !.ret = e1.ret])

t_yaml_env_pres_get_next_node(e) ==
    IF e.next_node # 0 THEN [e EXCEPT !.ret = e.next_node]
    ELSE With(AllocNode(e), LAMBDA e1 : [e1 EXCEPT !.next_node = e1.ret])

\* the comment runs from comment_ps to the current position; e.pc holds the
\* prefix comments that yaml_env_ltrim collects.
\* assert (pnode->inline_comment.len == 0): on a node that has an inline
\* comment already, a build with assertions stops the call and a build
\* without them overwrites the comment
t_yaml_env_handle_comment_ps(e, comment_ps, prefix) ==
    IF ~e.has_pres THEN e
    ELSE LET comment == lstr_trim(SubSeq(Text(e), comment_ps + 1, e.ps - 1))
         IN IF prefix THEN [e EXCEPT !.pc = Append(@, comment)]
            ELSE Try(t_yaml_env_pres_get_current_node(e), LAMBDA e1 :
                     IF e1.nodes[e1.ret].inline_comment # <<>> /\ e.ub = "crash"
                     THEN [e1 EXCEPT !.res = Crashed]
                     ELSE [e1 EXCEPT !.nodes[e1.ret].inline_comment = comment])

yaml_env_set_prefix_comments(e) ==
    IF ~e.has_pres \/ e.pc = <<>> THEN [e EXCEPT !.pc = <<>>]
    ELSE With(t_yaml_env_pres_get_next_node(e), LAMBDA e1 :
              [e1 EXCEPT !.nodes[e1.ret].prefix_comments = e.pc, !.pc = <<>>])

t_yaml_env_pres_set_flow_mode(e) ==
    IF ~e.has_pres THEN e
    ELSE Try(t_yaml_env_pres_get_current_node(e), LAMBDA e1 :
             [e1 EXCEPT !.nodes[e1.ret].flow_mode = TRUE])

Min(a, b) == IF a < b THEN a ELSE b

\* the empty lines counted without a maximum
t_yaml_env_pres_count_empty_line(e) ==
    IF ~e.has_pres THEN e
    ELSE With(t_yaml_env_pres_get_next_node(e), LAMBDA e1 :
              [e1 EXCEPT !.nodes[e1.ret].empty_lines = @ + 1])

t_yaml_env_pres_add_empty_line(e) ==
    IF ~e.has_pres THEN e
    ELSE With(t_yaml_env_pres_get_next_node(e), LAMBDA e1 :
              [e1 EXCEPT !.nodes[e1.ret].empty_lines = Min(@ + 1, 2)])

(***************************************************************************)
(* Utils                                                                   *)
(***************************************************************************)

\* the end of yaml_env_ltrim, after its loop
ltrim_end(e, comment_ps, in_new_line) ==
    With(IF comment_ps # 0
         THEN t_yaml_env_handle_comment_ps(e, comment_ps, in_new_line)
         ELSE e,
         LAMBDA e1 : IF e1.res < 0 THEN [e1 EXCEPT !.pc = <<>>]
                     ELSE yaml_env_set_prefix_comments(e1))

\* the loop of yaml_env_ltrim; comment_ps is 0 for a NULL comment_ps.s
RECURSIVE ltrim_loop(_, _, _, _)
ltrim_loop(e, in_comment, comment_ps, in_new_line) ==
    IF ps_done(e) THEN ltrim_end(e, comment_ps, in_new_line)
    ELSE LET c == ps_peekc(e) IN
      IF c = "#" THEN
          ltrim_loop(yaml_env_skipc(e), TRUE,
                     IF in_comment THEN comment_ps ELSE e.ps, in_new_line)
      ELSE IF c = "\n" THEN
          With([IF e.pos_newline = e.ps
                THEN t_yaml_env_pres_add_empty_line(e) ELSE e
                EXCEPT !.line_number = @ + 1, !.pos_newline = e.ps + 1],
               LAMBDA e2 :
          With(IF comment_ps # 0
               THEN t_yaml_env_handle_comment_ps(e2, comment_ps, in_new_line)
               ELSE e2,
               LAMBDA e3 :
          IF e3.res < 0 THEN [e3 EXCEPT !.pc = <<>>]
          ELSE ltrim_loop(yaml_env_skipc(e3), FALSE, 0, TRUE)))
      ELSE IF c = "\t" THEN
          [yaml_env_set_err(e, YAML_ERR_TAB_CHARACTER,
                            "cannot use tab characters for indentation")
           EXCEPT !.pc = <<>>]
      ELSE IF ~isspace(c) /\ ~in_comment THEN
          ltrim_end(e, comment_ps, in_new_line)
      ELSE ltrim_loop(yaml_env_skipc(e), in_comment, comment_ps, in_new_line)

yaml_env_ltrim(e) ==
    ltrim_loop([e EXCEPT !.pc = <<>>], FALSE, 0, yaml_env_get_column_nb(e) = 1)

ps_startswith_yaml_seq_prefix(e) ==
    /\ ps_has(e, 2)
    /\ Text(e)[e.ps] = "-"
    /\ isspace(Text(e)[e.ps + 1])

ps_startswith_yaml_key(e, must_be_variable) ==
    LET dollar == ps_peekc(e) = "$"
        start == IF dollar THEN e.ps + 1 ELSE e.ps
        stop == SpanAlnum(Text(e), start)
    IN /\ dollar \/ ~must_be_variable
       /\ stop > start
       /\ stop <= Len(Text(e))
       /\ Text(e)[stop] = ":"
       /\ (stop = Len(Text(e)) \/ isspace(Text(e)[stop + 1]))

(***************************************************************************)
(* Variables                                                               *)
(***************************************************************************)

\* position of `name` in a yaml_vars map (a sequence of [name, vars]
\* entries in insertion order), 0 when it is not a key (qm_find)
RECURSIVE qm_find(_, _, _)
qm_find(variables, name, i) ==
    IF i > Len(variables) THEN 0
    ELSE IF variables[i].name = name THEN i
    ELSE qm_find(variables, name, i + 1)

qm_del_at(variables, pos) ==
    SubSeq(variables, 1, pos - 1) \o SubSeq(variables, pos + 1, Len(variables))

\* t_yaml_env_add_var on a map
add_var(variables, name, var) ==
    LET pos == qm_find(variables, name, 1)
    IN IF pos # 0 THEN [variables EXCEPT ![pos].vars = Append(@, var)]
       ELSE Append(variables, [name |-> name, vars |-> <<var>>])

t_yaml_env_add_var(e, name, var) ==
    [e EXCEPT !.variables = add_var(@, name, var)]

\* qv_extend / struct copy of the vector of occurrences, per name
RECURSIVE merge_vars(_, _)
merge_vars(variables, vs) ==
    IF vs = <<>> THEN variables
    ELSE LET pos == qm_find(variables, Head(vs).name, 1)
             merged == IF pos # 0
                       THEN [variables EXCEPT ![pos].vars = @ \o Head(vs).vars]
                       ELSE Append(variables, Head(vs))
         IN merge_vars(merged, Tail(vs))

\* a context that takes over no variable of the file it includes
yaml_env_drop_variables(e, vs) == e

yaml_env_merge_variables(e, vs) ==
    [e EXCEPT !.variables = merge_vars(@, vs)]

\* the names found after each '$' of s, in order of first occurrence, from
\* position i on
RECURSIVE variables_found(_, _, _)
variables_found(s, i, found) ==
    LET d == IndexFrom(s, "$", i) IN
    IF d = 0 THEN found
    ELSE LET stop == SpanAlnum(s, d + 1)
             name == SubSeq(s, d + 1, stop - 1)
         IN variables_found(s, stop,
                IF stop > d + 1 /\ \A k \in 1..Len(found) : found[k] # name
                THEN Append(found, name) ELSE found)

RECURSIVE add_vars(_, _, _)
add_vars(variables, names, var) ==
    IF names = <<>> THEN variables
    ELSE add_vars(add_var(variables, Head(names), var), Tail(names), var)

t_yaml_env_add_variables(e, data, in_string) ==
    With(variables_found(e.mem[data].s, 1, <<>>), LAMBDA found :
    LET s == e.mem[data].s
        whole == \E k \in 1..Len(found) : Len(found[k]) + 1 = Len(s)
        var == [data |-> data, in_string |-> in_string \/ ~whole]
    IN IF found = <<>> THEN e
       ELSE With([e EXCEPT !.variables = add_vars(@, found, var)], LAMBDA e1 :
            IF ~e.flags.gen_pres THEN e1
            ELSE Try(t_yaml_env_pres_get_current_node(e1), LAMBDA e2 :
                     [e2 EXCEPT !.nodes[e2.ret].has_vwv = TRUE,
                                !.nodes[e2.ret].value_with_variables = s])))

\* the string built by t_data_set_string_variable from the characters of s
\* at and after position i
RECURSIVE set_string_variable(_, _, _, _)
set_string_variable(s, i, name, value) ==
    LET d == IndexFrom(s, "$", i) IN
    IF d = 0 THEN SubSeq(s, i, Len(s))
    ELSE SubSeq(s, i, d - 1) \o
         (IF lstr_startswith(SubSeq(s, d + 1, Len(s)), name)
          THEN value \o set_string_variable(s, d + 1 + Len(name), name, value)
          ELSE <<"$">> \o set_string_variable(s, d + 1, name, value))

\* *slot = d.  Through a stale pointer the store is undefined behaviour: it
\* crashes the call, or it lands in the dead slot, which the AST does not hold
DataWrite(e, slot, d) ==
    IF Stale(e, slot) /\ e.ub = "crash" THEN [e EXCEPT !.res = Crashed]
    ELSE [e EXCEPT !.mem[slot] = d]

t_data_set_string_variable(e, data, name, value) ==
    DataWrite(e, data,
              [e.mem[data] EXCEPT !.s = set_string_variable(@, 1, name, value)])

\* the loop of t_yaml_env_replace_variables over the occurrences of a name
RECURSIVE replace_occurrences(_, _, _, _, _)
replace_occurrences(e, occ, k, name, pair) ==
    IF k > Len(occ) \/ e.res < 0 THEN e
    ELSE LET pd == e.mem[pair.slot] IN
      IF occ[k].in_string THEN
          IF pd.type # "scalar" THEN
              yaml_env_set_err_at(e, pd.span, YAML_ERR_WRONG_DATA,
                                  "this variable can only be set with a scalar")
          ELSE LET value == IF pd.stype = "string" THEN pd.s
                            ELSE yaml_span_to_lstr(e, pd.span)
               IN replace_occurrences(
                      t_data_set_string_variable(e, occ[k].data, name, value),
                      occ, k + 1, name, pair)
      ELSE replace_occurrences(DataWrite(e, occ[k].data, pd),
                               occ, k + 1, name, pair)

\* t_yaml_env_replace_variables from field i of the override on; e.vars is
\* the map `variables`, e.names the vector `variables_names`
RECURSIVE replace_variables_loop(_, _, _)
replace_variables_loop(e, override, i) ==
    LET fields == e.conts[e.mem[override].cont].items IN
    IF i > Len(fields) \/ e.res < 0 THEN e
    ELSE LET pair == fields[i] IN
      IF ~lstr_startswith(pair.key, <<"$">>)
      THEN replace_variables_loop(e, override, i + 1)
      ELSE LET name == Tail(pair.key)
               e1 == [e EXCEPT !.names = Append(@, name)]
               pos == qm_find(e.vars, name, 1)
           IN IF pos = 0
              THEN yaml_env_set_err_at(e1, pair.key_span, YAML_ERR_BAD_KEY,
                                       "unknown variable")
              ELSE Try(replace_occurrences(e1, e.vars[pos].vars, 1, name, pair),
                       LAMBDA e2 :
                           replace_variables_loop(
                               [e2 EXCEPT !.vars = qm_del_at(@, pos)],
                               override, i + 1))

t_yaml_env_replace_variables(e, override) ==
    replace_variables_loop([e EXCEPT !.names = <<>>], override, 1)

(***************************************************************************)
(* Scalars                                                                 *)
(***************************************************************************)

\* ctype_scalarend: '\n' and '#'; ctype_scalarflowend adds "{[}]" and ','
scalarend(c, in_flow) ==
    \/ c \in {"\n", "#"}
    \/ in_flow /\ c \in {"{", "[", "}", "]", ","}

RECURSIVE CSpanEnd(_, _, _)
CSpanEnd(s, i, in_flow) ==
    IF i > Len(s) \/ scalarend(s[i], in_flow) THEN i
    ELSE CSpanEnd(s, i + 1, in_flow)

\* ps_rtrim of the span [start, stop)
RECURSIVE RTrimEnd(_, _, _)
RTrimEnd(s, start, stop) ==
    IF stop > start /\ isspace(s[stop - 1]) THEN RTrimEnd(s, start, stop - 1)
    ELSE stop

\* yaml_env_get_scalar_ps: the stream is left at the end of the trimmed
\* scalar, whose start is the old position
yaml_env_get_scalar_ps(e, in_flow) ==
    [e EXCEPT !.ps = RTrimEnd(Text(e), e.ps, CSpanEnd(Text(e), e.ps, in_flow))]

\* parse_quoted_string() of the library, for strings without backslash (the
\* documents of the model hold none): the text up to the closing quote
t_yaml_env_parse_quoted_string(e, out) ==
    LET e1 == yaml_env_skipc(e)
        close == IndexFrom(Text(e), "\"", e1.ps)
    IN IF close = 0
       THEN yaml_env_set_err([e1 EXCEPT !.ps = Len(Text(e)) + 1],
                             YAML_ERR_BAD_STRING, "missing closing '\"'")
       ELSE LET e2 == yaml_env_end_data([e1 EXCEPT !.ps = close + 1], out)
            IN [e2 EXCEPT !.mem[out].stype = "string",
                          !.mem[out].s = SubSeq(Text(e), e1.ps, close - 1)]

Str_null == <<"n", "u", "l", "l">>
Str_true == <<"t", "r", "u", "e">>
Str_false == <<"f", "a", "l", "s", "e">>
Str_inf == <<".", "i", "n", "f">>
Str_minf == <<"-", ".", "i", "n", "f">>
Str_nan == <<".", "n", "a", "n">>

\* yaml_parse_special_scalar: the scalar fields it sets, or status -1
yaml_parse_special_scalar(line) ==
    IF line = <<"~">> \/ lstr_ascii_iequal(line, Str_null)
    THEN [status |-> 0, stype |-> "null", n |-> 0, b |-> FALSE, d |-> ""]
    ELSE IF lstr_ascii_iequal(line, Str_true)
    THEN [status |-> 0, stype |-> "bool", n |-> 0, b |-> TRUE, d |-> ""]
    ELSE IF lstr_ascii_iequal(line, Str_false)
    THEN [status |-> 0, stype |-> "bool", n |-> 0, b |-> FALSE, d |-> ""]
    ELSE IF lstr_ascii_iequal(line, Str_minf)
    THEN [status |-> 0, stype |-> "double", n |-> 0, b |-> FALSE, d |-> "-inf"]
    ELSE IF lstr_ascii_iequal(line, Str_inf)
    THEN [status |-> 0, stype |-> "double", n |-> 0, b |-> FALSE, d |-> "inf"]
    ELSE IF lstr_ascii_iequal(line, Str_nan)
    THEN [status |-> 0, stype |-> "double", n |-> 0, b |-> FALSE, d |-> "nan"]
    ELSE [status |-> -1, stype |-> "none", n |-> 0, b |-> FALSE, d |-> ""]

AllDigits(s) == s # <<>> /\ \A i \in 1..Len(s) : isdigit(s[i])

\* yaml_parse_numeric_scalar on decimal integers; the documents of the model
\* hold no other number (no fraction, no exponent, no hexadecimal), for which
\* lstr_to_double would be the last resort
yaml_parse_numeric_scalar(line) ==
    IF line[1] = "-" /\ AllDigits(Tail(line)) THEN
        LET i == 0 - ParseNat(Tail(line), 0)
        IN IF i >= 0
           THEN [status |-> 0, stype |-> "uint", n |-> i, b |-> FALSE, d |-> ""]
           ELSE [status |-> 0, stype |-> "int", n |-> i, b |-> FALSE, d |-> ""]
    ELSE IF AllDigits(line) THEN
        [status |-> 0, stype |-> "uint", n |-> ParseNat(line, 0), b |-> FALSE,
         d |-> ""]
    ELSE [status |-> -1, stype |-> "none", n |-> 0, b |-> FALSE, d |-> ""]

SetScalar(e, out, sc) ==
    [e EXCEPT !.mem[out].stype = sc.stype, !.mem[out].n = sc.n,
              !.mem[out].b = sc.b, !.mem[out].d = sc.d]

t_yaml_env_parse_scalar(e, in_flow, out) ==
    With(yaml_env_start_data(e, "scalar", out), LAMBDA e0 :
    IF ps_peekc(e0) = "\"" THEN
        Try(t_yaml_env_parse_quoted_string(e0, out), LAMBDA e1 :
            t_yaml_env_add_variables(e1, out, TRUE))
    ELSE With(yaml_env_get_scalar_ps(e0, in_flow), LAMBDA e1 :
         LET line == SubSeq(Text(e), e.ps, e1.ps - 1)
         IN IF line = <<>>
            THEN yaml_env_set_err(e1, YAML_ERR_MISSING_DATA,
                                  "unexpected character")
            ELSE With(yaml_env_end_data(e1, out), LAMBDA e2 :
                 With(yaml_parse_special_scalar(line), LAMBDA special :
                 With(yaml_parse_numeric_scalar(line), LAMBDA numeric :
                 IF special.status >= 0 THEN SetScalar(e2, out, special)
                 ELSE IF numeric.status >= 0 THEN SetScalar(e2, out, numeric)
                 ELSE t_yaml_env_add_variables(
                          [e2 EXCEPT !.mem[out].stype = "string",
                                     !.mem[out].s = line],
                          out, FALSE))))))

(***************************************************************************)
(* Paths.  The path helpers of the library (path_dirname, path_extend,     *)
(* path_simplify, path_relative_to, path_ext) are not part of yaml.c; they *)
(* are modelled by their documented behaviour, on '/'-separated            *)
(* components.                                                             *)
(***************************************************************************)

\* the components of a path: the runs of characters between slashes
RECURSIVE SplitPath(_, _, _)
SplitPath(p, i, cur) ==
    IF i > Len(p) THEN (IF cur = <<>> THEN <<>> ELSE <<cur>>)
    ELSE IF p[i] = "/"
    THEN (IF cur = <<>> THEN <<>> ELSE <<cur>>) \o SplitPath(p, i + 1, <<>>)
    ELSE SplitPath(p, i + 1, Append(cur, p[i]))

RECURSIVE JoinPath(_)
JoinPath(comps) ==
    IF comps = <<>> THEN <<>>
    ELSE IF Len(comps) = 1 THEN comps[1]
    ELSE comps[1] \o <<"/">> \o JoinPath(Tail(comps))

IsAbsolute(p) == p # <<>> /\ p[1] = "/"

Dot == <<".">>
DotDot == <<".", ".">>

\* components with "." dropped and "x/.." resolved; a relative path keeps
\* the ".." that lead out of its start, an absolute one drops them
RECURSIVE SimplifyComps(_, _, _)
SimplifyComps(comps, acc, abs) ==
    IF comps = <<>> THEN acc
    ELSE LET c == Head(comps) IN
      IF c = Dot THEN SimplifyComps(Tail(comps), acc, abs)
      ELSE IF c = DotDot THEN
          IF acc # <<>> /\ acc[Len(acc)] # DotDot
          THEN SimplifyComps(Tail(comps), SubSeq(acc, 1, Len(acc) - 1), abs)
          ELSE IF abs THEN SimplifyComps(Tail(comps), acc, abs)
          ELSE SimplifyComps(Tail(comps), Append(acc, c), abs)
      ELSE SimplifyComps(Tail(comps), Append(acc, c), abs)

path_simplify(p) ==
    With(SimplifyComps(SplitPath(p, 1, <<>>), <<>>, IsAbsolute(p)),
         LAMBDA comps : IF IsAbsolute(p) THEN <<"/">> \o JoinPath(comps)
                        ELSE IF comps = <<>> THEN Dot
                        ELSE JoinPath(comps))

\* dirname(3): "." for a path without directory
path_dirname(p) ==
    With(SplitPath(p, 1, <<>>), LAMBDA comps :
    LET dir == SubSeq(comps, 1, Len(comps) - 1)
    IN IF Len(comps) <= 1 THEN (IF IsAbsolute(p) THEN <<"/">> ELSE Dot)
       ELSE IF IsAbsolute(p) THEN <<"/">> \o JoinPath(dir)
       ELSE JoinPath(dir))

\* path_extend(buf, prefix, suffix): an absolute suffix replaces the prefix
path_extend(prefix, suffix) ==
    IF IsAbsolute(suffix) \/ prefix = <<>> THEN suffix
    ELSE IF prefix[Len(prefix)] = "/" THEN prefix \o suffix
    ELSE prefix \o <<"/">> \o suffix

\* the working directory of the process, against which relative paths are
\* resolved (path_canonify)
Cwd == <<"/", "w">>

path_canonify(p) ==
    path_simplify(IF IsAbsolute(p) THEN p ELSE Cwd \o <<"/">> \o p)

RECURSIVE CommonLen(_, _)
CommonLen(a, b) ==
    IF a = <<>> \/ b = <<>> \/ Head(a) # Head(b) THEN 0
    ELSE 1 + CommonLen(Tail(a), Tail(b))

\* path_relative_to(from, to) for a directory `from` (it ends with '/'):
\* one ".." per component of `from` that `to` does not share, then the rest
\* of `to`
path_relative_to(from, to) ==
    With(SplitPath(path_canonify(from), 1, <<>>), LAMBDA f :
    With(SplitPath(path_canonify(to), 1, <<>>), LAMBDA t :
    With(CommonLen(f, t), LAMBDA n :
    JoinPath([i \in 1..(Len(f) - n) |-> DotDot] \o SubSeq(t, n + 1, Len(t))))))

\* position of the last c of s, 0 when there is none
RECURSIVE LastIndex(_, _, _)
LastIndex(s, c, i) ==
    IF i = 0 THEN 0 ELSE IF s[i] = c THEN i ELSE LastIndex(s, c, i - 1)

\* path_ext: position of the '.' that starts the extension of the last
\* component, 0 when it has none (a leading '.' starts no extension)
path_ext(p) ==
    LET slash == LastIndex(p, "/", Len(p))
        dot == LastIndex(p, ".", Len(p))
    IN IF dot > slash + 1 THEN dot ELSE 0

(***************************************************************************)
(* Block sequences and objects                                             *)
(***************************************************************************)

RECURSIVE t_yaml_env_parse_data(_, _, _)
RECURSIVE t_yaml_env_parse_flow_key_data(_, _)
RECURSIVE t_yaml_parse(_, _)

\* an element of `datas` or of `fields`
Item(key, has_key, key_span, slot, kpres) ==
    [key |-> key, has_key |-> has_key, key_span |-> key_span, slot |-> slot,
     key_presentation |-> kpres]

\* qv_growlen: a new last element, whose slot is e.ret
GrowItems(e, c, key, has_key, key_span) ==
    With(AllocData(e), LAMBDA e1 :
         [e1 EXCEPT !.conts[c].items =
                        Append(@, Item(key, has_key, key_span, e1.ret, 0))])

\* qv_append of a yaml_data_t / yaml_key_data_t: the struct is copied into a
\* new last element
AppendCopy(e, c, key, has_key, key_span, kpres, from) ==
    With(AllocData(e), LAMBDA e1 :
         [e1 EXCEPT !.mem[e1.ret] = e.mem[from],
                    !.conts[c].items =
                        Append(@, Item(key, has_key, key_span, e1.ret, kpres))])

\* yaml_env_pop_next_node into a fresh local `node`; e.ret is that local
yaml_env_pop_next_node(e) ==
    With(AllocCell(e), LAMBDA e1 :
         [e1 EXCEPT !.cells[e1.ret] = e.next_node, !.next_node = 0,
                    !.last_node = CellLoc(e1.ret)])

\* one iteration of the loop of t_yaml_env_parse_seq, and the rest of the
\* function; c holds the vectors `datas` and `pres`
RECURSIVE parse_seq_loop(_, _, _, _)
parse_seq_loop(e, min_indent, out, c) ==
    Try(yaml_env_ltrim(e), LAMBDA e1 :
    With(IF e1.has_pres THEN yaml_env_pop_next_node(e1)
         ELSE [e1 EXCEPT !.ret = 0], LAMBDA e2 :
    With(GrowItems(yaml_env_skipc(e2), c, <<>>, FALSE, NoSpan), LAMBDA e3 :
    Try(t_yaml_env_parse_data(e3, min_indent + 1, e3.ret), LAMBDA e4 :
    Try(yaml_env_ltrim(e4), LAMBDA e5 :
    LET node == e2.ret
        elem == e3.ret
        pos_end == e5.mem[elem].span.e
        e6 == [e5 EXCEPT !.conts[c].pres_nodes =
                             Append(@, IF node = 0 THEN 0 ELSE e5.cells[node])]
        last_indent == yaml_env_get_column_nb(e6)
    IN IF ps_done(e6) \/ last_indent < min_indent
       THEN [yaml_env_end_data_with_pos(e6, pos_end, out)
             EXCEPT !.mem[out].cont = c]
       ELSE IF last_indent > min_indent
       THEN yaml_env_set_err(e6, YAML_ERR_WRONG_INDENT,
                             "line not aligned with current sequence")
       ELSE IF ~ps_startswith_yaml_seq_prefix(e6)
       THEN yaml_env_set_err(e6, YAML_ERR_WRONG_DATA,
                             "expected another element of sequence")
       ELSE parse_seq_loop(e6, min_indent, out, c))))))

t_yaml_env_parse_seq(e, min_indent, out) ==
    With(AllocCont(e), LAMBDA e1 :
         parse_seq_loop(yaml_env_start_data(e1, "seq", out), min_indent, out,
                        e1.ret))

\* yaml_env_parse_key: e.key and e.key_span are the outputs, e.ret the local
\* `node` of the caller (0 without presentation or when none is asked for)
yaml_env_parse_key(e, want_node) ==
    Try(yaml_env_ltrim(e), LAMBDA e1 :
    With(IF e1.has_pres /\ want_node THEN yaml_env_pop_next_node(e1)
         ELSE [e1 EXCEPT !.ret = 0], LAMBDA e2 :
    With(SpanAlnum(Text(e2), IF ps_peekc(e2) = "$" THEN e2.ps + 1 ELSE e2.ps),
         LAMBDA stop :
    LET key_pos_start == e.ps
        start == e2.ps
        e3 == [e2 EXCEPT !.ps = stop,
                         !.key = SubSeq(Text(e2), start, stop - 1),
                         !.key_span = [fid |-> e2.fid, s |-> key_pos_start,
                                       e |-> stop]]
    IN IF stop = start
       THEN yaml_env_set_err(e3, YAML_ERR_BAD_KEY,
                             "only alpha-numeric characters allowed")
       ELSE IF ps_peekc(e3) # ":"
       THEN yaml_env_set_err(yaml_env_skipc(e3), YAML_ERR_BAD_KEY,
                             "missing colon")
       ELSE yaml_env_skipc(e3))))

\* a hash of keys that refuses none
KeyDeclaredNever(e, c, key) == FALSE

\* qh_add(&keys_hash, key) < 0: the key is already one of the fields
KeyDeclared(e, c, key) ==
    \E i \in 1..Len(e.conts[c].items) : e.conts[c].items[i].key = key

\* one iteration of the loop of t_yaml_env_parse_obj, and the rest of the
\* function; c holds the vector `fields`, pos_end is the end of the last
\* value parsed
RECURSIVE parse_obj_loop(_, _, _, _, _, _)
parse_obj_loop(e, min_indent, only_variables, out, c, pos_end) ==
    LET finish(x, pe) == [yaml_env_end_data_with_pos(x, pe, out)
                          EXCEPT !.mem[out].cont = c]
    IN
    Try(IF only_variables THEN yaml_env_ltrim(e) ELSE e, LAMBDA e0 :
    IF only_variables /\ ps_peekc(e0) # "$" THEN finish(e0, pos_end)
    ELSE
    Try(yaml_env_parse_key(e0, TRUE), LAMBDA e1 :
    IF ~only_variables /\ lstr_startswith(e1.key, <<"$">>)
    THEN yaml_env_set_err_at(e1, e1.key_span, YAML_ERR_BAD_KEY,
                             "cannot specify a variable value in this context")
    ELSE
    With(GrowItems(e1, c, e1.key, TRUE, e1.key_span), LAMBDA e2 :
    IF KeyDeclared(e1, c, e1.key)
    THEN yaml_env_set_err_at(e2, e1.key_span, YAML_ERR_BAD_KEY,
                             "key is already declared in the object")
    ELSE
    Try(yaml_env_ltrim(e2), LAMBDA e3 :
    Try(t_yaml_env_parse_data(e3, IF ps_startswith_yaml_seq_prefix(e3)
                                  THEN min_indent ELSE min_indent + 1,
                              e2.ret),
        LAMBDA e4 :
    Try(yaml_env_ltrim(
            [e4 EXCEPT !.conts[c].items[Len(e2.conts[c].items)]
                             .key_presentation =
                           IF e1.ret = 0 THEN 0 ELSE e4.cells[e1.ret]]),
        LAMBDA e6 :
    LET pe == e4.mem[e2.ret].span.e
        last_indent == yaml_env_get_column_nb(e6)
    IN IF ps_done(e6) \/ last_indent < min_indent THEN finish(e6, pe)
       ELSE IF last_indent > min_indent
       THEN yaml_env_set_err(e6, YAML_ERR_WRONG_INDENT,
                             "line not aligned with current object")
       ELSE parse_obj_loop(e6, min_indent, only_variables, out, c, pe)))))))

t_yaml_env_parse_obj(e, min_indent, only_variables, out) ==
    With(AllocCont(e), LAMBDA e1 :
         parse_obj_loop(yaml_env_start_data(e1, "obj", out), min_indent,
                        only_variables, out, e1.ret, 0))

(***************************************************************************)
(* Flow sequences and objects                                              *)
(***************************************************************************)

\* t_yaml_env_build_implicit_obj: `out` becomes an object with the one field
\* kd = (e.key, e.key_span, the data of slot kd)
t_yaml_env_build_implicit_obj(e, kd, out) ==
    With(AllocCont(e), LAMBDA e1 :
         [yaml_env_end_data_with_pos(
              yaml_env_start_data_with_pos(
                  AppendCopy(e1, e1.ret, e.key, TRUE, e.key_span, 0, kd),
                  "obj", e.key_span.s, out),
              e.mem[kd].span.e, out)
          EXCEPT !.mem[out].cont = e1.ret])

\* one iteration of the loop of t_yaml_env_parse_flow_seq, and its end.  The
\* locals `kd` and `obj` of the loop body are the slots kd and obj: the same
\* storage at every iteration, dead once the function returns.  What is
\* parsed into them reaches `datas` by copy
RECURSIVE parse_flow_seq_loop(_, _, _, _, _)
parse_flow_seq_loop(e, out, c, kd, obj) ==
    LET finish(x) == KillData(KillData(
                         [yaml_env_end_data(yaml_env_skipc(x), out)
                          EXCEPT !.mem[out].cont = c], kd), obj)
    IN
    Try(yaml_env_ltrim(e), LAMBDA e1 :
    IF ps_peekc(e1) = "]" THEN finish(e1)
    ELSE
    Try(t_yaml_env_parse_flow_key_data(e1, kd), LAMBDA e3 :
    Try(yaml_env_ltrim(
            IF e3.has_key
            THEN AppendCopy(t_yaml_env_build_implicit_obj(e3, kd, obj), c,
                            <<>>, FALSE, NoSpan, 0, obj)
            ELSE AppendCopy(e3, c, <<>>, FALSE, NoSpan, 0, kd)),
        LAMBDA e5 :
    IF ps_peekc(e5) = "]" THEN finish(e5)
    ELSE IF ps_peekc(e5) = ","
    THEN parse_flow_seq_loop(yaml_env_skipc(e5), out, c, kd, obj)
    ELSE yaml_env_set_err(e5, YAML_ERR_WRONG_DATA,
                          "expected another element of sequence"))))

t_yaml_env_parse_flow_seq(e, out) ==
    With(AllocCont(e), LAMBDA e1 :
    With(AllocData(e1), LAMBDA e2 :
    With(AllocData(e2), LAMBDA e3 :
    parse_flow_seq_loop(yaml_env_skipc(yaml_env_start_data(e3, "seq", out)),
                        out, e1.ret, e2.ret, e3.ret))))

RECURSIVE parse_flow_obj_loop(_, _, _, _)
parse_flow_obj_loop(e, out, c, kd) ==
    LET finish(x) == KillData([yaml_env_end_data(yaml_env_skipc(x), out)
                               EXCEPT !.mem[out].cont = c], kd)
    IN
    Try(yaml_env_ltrim(e), LAMBDA e1 :
    IF ps_peekc(e1) = "}" THEN finish(e1)
    ELSE
    Try(t_yaml_env_parse_flow_key_data(e1, kd), LAMBDA e3 :
    IF ~e3.has_key
    THEN yaml_env_set_err_at(e3, e3.mem[kd].span, YAML_ERR_WRONG_DATA,
             "only key-value mappings are allowed inside an object")
    ELSE IF KeyDeclared(e3, c, e3.key)
    THEN yaml_env_set_err_at(e3, e3.key_span, YAML_ERR_BAD_KEY,
                             "key is already declared in the object")
    ELSE
    Try(yaml_env_ltrim(AppendCopy(e3, c, e3.key, TRUE, e3.key_span, 0, kd)),
        LAMBDA e5 :
    IF ps_peekc(e5) = "}" THEN finish(e5)
    ELSE IF ps_peekc(e5) = ","
    THEN parse_flow_obj_loop(yaml_env_skipc(e5), out, c, kd)
    ELSE yaml_env_set_err(e5, YAML_ERR_WRONG_DATA,
                          "expected another element of object"))))

t_yaml_env_parse_flow_obj(e, out) ==
    With(AllocCont(e), LAMBDA e1 :
    With(AllocData(e1), LAMBDA e2 :
    parse_flow_obj_loop(yaml_env_skipc(yaml_env_start_data(e2, "obj", out)),
                        out, e1.ret, e2.ret)))

\* t_yaml_env_parse_flow_key_val: the key goes to e.key / e.key_span, the
\* value is parsed into the local `kd` and copied into the data of `out`
t_yaml_env_parse_flow_key_val(e, out) ==
    Try(yaml_env_parse_key(e, FALSE), LAMBDA e1 :
    IF lstr_startswith(e1.key, <<"$">>)
    THEN yaml_env_set_err_at(e1, e1.key_span, YAML_ERR_BAD_KEY,
                             "cannot specify a variable value in this context")
    ELSE
    Try(yaml_env_ltrim(e1), LAMBDA e2 :
    With(AllocData(e2), LAMBDA e3 :
    Try(t_yaml_env_parse_flow_key_data(e3, e3.ret), LAMBDA e4 :
    LET kd == e3.ret
    IN IF e4.has_key
       THEN yaml_env_set_err_at(e4, [fid |-> e4.fid, s |-> e4.key_span.e,
                                     e |-> e4.key_span.e + 1],
                                YAML_ERR_WRONG_DATA, "unexpected colon")
       ELSE KillData([e4 EXCEPT !.mem[out] = e4.mem[kd], !.has_key = TRUE,
                                !.key = e1.key, !.key_span = e1.key_span],
                     kd)))))

\* t_yaml_env_parse_flow_key_data into the yaml_key_data_t whose data is slot
\* `out`; e.has_key says whether out->key.s is set
t_yaml_env_parse_flow_key_data(e, out) ==
    Try(yaml_env_ltrim([e EXCEPT !.mem[out] = ClearData, !.has_key = FALSE,
                                 !.key = <<>>, !.key_span = NoSpan]),
        LAMBDA e1 :
    IF ps_done(e1)
    THEN yaml_env_set_err(e1, YAML_ERR_MISSING_DATA, "unexpected end of line")
    ELSE IF ps_startswith_yaml_key(e1, FALSE)
    THEN t_yaml_env_parse_flow_key_val(e1, out)
    ELSE IF ps_peekc(e1) = "[" THEN
        [t_yaml_env_parse_flow_seq(e1, out) EXCEPT !.has_key = FALSE]
    ELSE IF ps_peekc(e1) = "{" THEN
        [t_yaml_env_parse_flow_obj(e1, out) EXCEPT !.has_key = FALSE]
    ELSE t_yaml_env_parse_scalar(e1, TRUE, out))

(***************************************************************************)
(* Generate presentations                                                  *)
(***************************************************************************)

\* "[%d]"
FmtIndex(pos) == <<"[">> \o FmtNat(pos) \o <<"]">>
\* ".%pL"
FmtKey(key) == <<".">> \o key

\* a mapping whose path is the buffer of the walk, not a copy of it: the
\* buffer is clipped when the walk is over
add_mapping_nodup(path, node) == <<[path |-> <<>>, node |-> node]>>

add_mapping(path, node) == <<[path |-> path, node |-> node]>>

\* t_yaml_add_pres_mappings: the mappings (path, copy of the node) of `data`
\* and of what it holds, in the order the C code appends them.  items_from
\* walks the elements of a container from position i on
RECURSIVE t_yaml_add_pres_mappings(_, _, _)
RECURSIVE items_mappings(_, _, _, _)
t_yaml_add_pres_mappings(e, data, path) ==
    LET d == e.mem[data]
        own == IF d.pres # 0
               THEN add_mapping(path \o <<"!">>, e.nodes[d.pres]) ELSE <<>>
    IN IF d.pres # 0 /\ e.nodes[d.pres].included # 0 THEN own
       ELSE IF d.type \in {"seq", "obj"}
       THEN own \o items_mappings(e, d, path, 1)
       ELSE own

items_mappings(e, d, path, i) ==
    LET c == e.conts[d.cont] IN
    IF i > Len(c.items) THEN <<>>
    ELSE LET it == c.items[i]
             p == IF d.type = "seq" THEN path \o FmtIndex(i - 1)
                  ELSE path \o FmtKey(it.key)
             node == IF d.type = "seq"
                     THEN (IF i <= Len(c.pres_nodes) THEN c.pres_nodes[i] ELSE 0)
                     ELSE it.key_presentation
         IN (IF node # 0 THEN add_mapping(p, e.nodes[node]) ELSE <<>>)
            \o t_yaml_add_pres_mappings(e, it.slot, p)
            \o items_mappings(e, d, path, i + 1)

\* t_yaml_data_get_presentation: the yaml.DocumentPresentation of `data`
t_yaml_data_get_presentation(e, data) == t_yaml_add_pres_mappings(e, data, <<>>)

(***************************************************************************)
(* Includes                                                                *)
(***************************************************************************)

Str_include == <<"i", "n", "c", "l", "u", "d", "e">>
Str_includeraw == Str_include \o <<"r", "a", "w">>

\* a yaml__presentation_include__t after iop_init()
EmptyInc ==
    [include_presentation |-> 0, path |-> <<>>, raw |-> FALSE,
     document_presentation |-> <<>>,
     has_variables |-> FALSE, variables |-> <<>>,
     has_override |-> FALSE, override_nodes |-> <<>>,
     override_presentation |-> <<>>]

\* t_yaml_parse_attach_file up to the reading of the file: the full path and
\* the contents, or the error.  files is the disk
t_yaml_parse_attach_file(files, filepath, dirpath, has_dirpath) ==
    With(path_simplify(path_extend(IF has_dirpath THEN dirpath ELSE <<>>,
                                   filepath)),
         LAMBDA fullpath :
    LET relative_path == path_relative_to(dirpath \o <<"/">>, fullpath)
    IN IF has_dirpath /\ lstr_startswith(relative_path, DotDot)
       THEN [ok |-> FALSE, read |-> FALSE, fullpath |-> fullpath,
             contents |-> <<>>,
             msg |-> "cannot include subfile: only includes contained in the directory of the including file are allowed"]
       ELSE IF fullpath \notin DOMAIN files
       THEN [ok |-> FALSE, read |-> TRUE, fullpath |-> fullpath,
             contents |-> <<>>, msg |-> "cannot read file"]
       ELSE [ok |-> TRUE, read |-> TRUE, fullpath |-> fullpath,
             contents |-> files[fullpath], msg |-> ""])

\* the full paths of the contexts that include the parsing context, without
\* its own
has_inclusion_loop_above(e, newfile) ==
    \E i \in 1..Len(e.chain) : e.chain[i].has /\ e.chain[i].path = newfile

\* a file that was read before, wherever in the tree of the includes
has_been_read(e, newfile) ==
    \E i \in 1..(Len(e.reads) - 1) : e.reads[i] = newfile

\* the full paths of the parsing context and of the contexts that include it
\* (env->included->parent, up to the root)
has_inclusion_loop(e, newfile) ==
    \/ e.has_fullpath /\ e.fullpath = newfile
    \/ \E i \in 1..Len(e.chain) : e.chain[i].has /\ e.chain[i].path = newfile

\* the full paths that has_inclusion_loop walks from e: its own and those of
\* the contexts that include it, the nearest first.  e.opened records the
\* walk of every subfile that passed the test, with the subfile in front
included_chain(e) ==
    (IF e.has_fullpath THEN <<e.fullpath>> ELSE <<>>)
        \o [i \in 1..Len(SelectSeq(e.chain, LAMBDA c : c.has)) |->
                SelectSeq(e.chain, LAMBDA c : c.has)[i].path]

\* the fields of a yaml_parse_t, as opposed to the heap that all parsing
\* contexts share: those of `parent` put back after the parsing of a subfile
RestoreEnv(e, parent) ==
    [e EXCEPT !.fid = parent.fid, !.ps = parent.ps,
              !.line_number = parent.line_number,
              !.pos_newline = parent.pos_newline, !.flags = parent.flags,
              !.err = parent.err, !.out_err = parent.out_err,
              !.has_pres = parent.has_pres, !.last_node = parent.last_node,
              !.next_node = parent.next_node,
              !.variables = parent.variables, !.fullpath = parent.fullpath,
              !.has_fullpath = parent.has_fullpath, !.chain = parent.chain,
              !.res = parent.res]

\* flags of a subfile that has to bind its variables itself
SubfileFlagsBound == [gen_pres |-> TRUE, allow_unbound |-> FALSE]

\* YAML_PARSE_GEN_PRES_DATA | YAML_PARSE_ALLOW_UNBOUND_VARIABLES: the flags
\* of the parsing context of every subfile
SubfileFlags == [gen_pres |-> TRUE, allow_unbound |-> TRUE]

\* t_yaml_parse_new(SubfileFlags) and the attached file, for a subfile of e
SubfileEnv(e, att) ==
    [e EXCEPT !.texts = Append(@, att.contents), !.fid = Len(e.texts) + 1,
              !.ps = 1, !.line_number = 1, !.pos_newline = 1,
              !.flags = SubfileFlags,
              !.err = NoErr, !.out_err = NoErr, !.has_pres = FALSE,
              !.last_node = NullLoc, !.next_node = 0, !.variables = <<>>,
              !.fullpath = att.fullpath, !.has_fullpath = TRUE,
              !.chain = <<[has |-> e.has_fullpath, path |-> e.fullpath]>>
                        \o e.chain]

\* the end of t_yaml_env_do_include, once the local `subdata` (slot subdata
\* of e) holds the included data: its presentation, and *data = subdata
include_done(e, raw, data, subdata, vs) ==
    LET d == e.mem[data]
        inc == [EmptyInc EXCEPT
                   !.include_presentation = d.pres, !.path = d.s, !.raw = raw,
                   !.document_presentation =
                       t_yaml_data_get_presentation(e, subdata)]
    IN With(IF ~e.has_pres THEN e
            ELSE With(AllocNode([e EXCEPT !.incs = Append(@, inc)]), LAMBDA n :
                      [n EXCEPT !.nodes[n.ret].included = Len(n.incs),
                                !.mem[subdata].pres = n.ret]),
            LAMBDA e1 :
                KillData([e1 EXCEPT !.mem[data] = e1.mem[subdata], !.vars = vs],
                         subdata))

t_yaml_env_do_include(e, raw, data) ==
    Try(yaml_env_ltrim(e), LAMBDA e1 :
    With(t_yaml_parse_attach_file(
             e1.files, e1.mem[data].s,
             path_dirname(IF e1.has_fullpath THEN e1.fullpath ELSE <<>>), TRUE),
         LAMBDA att :
    LET d == e1.mem[data]
        fail(x, msg) == yaml_env_set_err_at(x, d.span,
                                            YAML_ERR_INVALID_INCLUDE, msg)
        e2 == IF att.ok THEN [e1 EXCEPT !.reads = Append(@, att.fullpath)]
              ELSE e1
    IN IF d.type # "scalar" \/ d.stype # "string"
       THEN fail(e1, IF raw THEN "!includeraw can only be used with strings"
                     ELSE "!include can only be used with strings")
       ELSE IF ~att.ok THEN fail(e1, att.msg)
       ELSE IF has_inclusion_loop(e2, att.fullpath)
       THEN fail(e2, "inclusion loop detected")
       ELSE
    With(AllocData([e2 EXCEPT !.opened =
                       Append(@, <<att.fullpath>> \o included_chain(e2))]),
         LAMBDA a :
    IF raw
    THEN include_done([a EXCEPT !.mem[a.ret] =
                           [ClearData EXCEPT !.type = "scalar",
                                             !.stype = "string",
                                             !.s = att.contents]],
                      raw, data, a.ret, <<>>)
    ELSE With(t_yaml_parse(SubfileEnv(a, att), a.ret), LAMBDA r :
              IF r.res < 0
              THEN [RestoreEnv(r, a) EXCEPT !.err = r.err, !.res = r.res]
              ELSE include_done(RestoreEnv(r, a), raw, data, a.ret,
                                r.variables)))))

(***************************************************************************)
(* Override: merging                                                       *)
(***************************************************************************)

\* t_yaml_data_to_iop of a scalar: its tag and its value
t_yaml_data_to_iop(d) ==
    [has_tag |-> d.has_tag, tag |-> d.tag, stype |-> d.stype, s |-> d.s,
     n |-> d.n, b |-> d.b, d |-> d.d]

NoOriginal == t_yaml_data_to_iop(ClearData)

\* yaml_pres_override_add_node on e.ov, the yaml_presentation_override_t of
\* the override being merged (its nodes, its current path)
yaml_pres_override_add_node(e, path, has_data, d) ==
    [e EXCEPT !.ov.nodes =
        Append(@, [path |-> path, has_data |-> has_data,
                   original_data |-> IF has_data THEN t_yaml_data_to_iop(d)
                                     ELSE NoOriginal])]

yaml_data_get_data_type(d) ==
    IF d.type = "obj" THEN "an object"
    ELSE IF d.type = "seq" THEN "a sequence"
    ELSE "a scalar"

\* a lookup that finds no field
FindKeyNone(items, key, i) == 0

\* position of the field of container c whose key is `key`, 0 without one
RECURSIVE FindKey(_, _, _)
FindKey(items, key, i) ==
    IF i > Len(items) THEN 0
    ELSE IF items[i].key = key THEN i
    ELSE FindKey(items, key, i + 1)

\* qv_extend(&seq->datas, &override->datas): the elements of `from`, from
\* position i on, copied at the end of container c
RECURSIVE ExtendItems(_, _, _, _)
ExtendItems(e, c, from, i) ==
    IF i > Len(from) THEN e
    ELSE ExtendItems(AppendCopy(e, c, <<>>, FALSE, NoSpan, 0, from[i].slot),
                     c, from, i + 1)

\* the paths "[len + i]" of the elements a sequence override adds
RECURSIVE AddSeqNodes(_, _, _, _)
AddSeqNodes(e, len, n, i) ==
    IF i >= n THEN e
    ELSE AddSeqNodes(
             yaml_pres_override_add_node(e, e.ov.path \o FmtIndex(len + i),
                                         FALSE, ClearData),
             len, n, i + 1)

\* a merge that appends the elements of the override and leaves the
\* presentation nodes of the sequence as they are
yaml_env_merge_seq_datas(e, override, pres, seq) ==
    ExtendItems(IF pres
                THEN AddSeqNodes(e, Len(e.conts[seq].items),
                                 Len(e.conts[override].items), 0)
                ELSE e,
                seq, e.conts[override].items, 1)

yaml_env_merge_seq(e, override, pres, seq) ==
    [ExtendItems(IF pres
                 THEN AddSeqNodes(e, Len(e.conts[seq].items),
                                  Len(e.conts[override].items), 0)
                 ELSE e,
                 seq, e.conts[override].items, 1)
     EXCEPT !.conts[seq].pres_nodes = @ \o e.conts[override].pres_nodes]

\* the scalar recorded once it has been overwritten
t_yaml_merge_scalar_late(e, override, pres, out) ==
    [IF pres
     THEN yaml_pres_override_add_node(e, e.ov.path, TRUE, e.mem[override])
     ELSE e
     EXCEPT !.mem[out] = e.mem[override]]

t_yaml_merge_scalar(e, override, pres, out) ==
    [IF pres THEN yaml_pres_override_add_node(e, e.ov.path, TRUE, e.mem[out])
     ELSE e
     EXCEPT !.mem[out] = e.mem[override]]

RECURSIVE t_yaml_env_merge_data(_, _, _, _)

t_yaml_env_merge_key_data(e, override, pres, obj) ==
    With(FindKey(e.conts[obj].items, override.key, 1), LAMBDA pos :
    IF pos # 0 THEN
        Try(t_yaml_env_merge_data(
                IF pres THEN [e EXCEPT !.ov.path = @ \o FmtKey(override.key)]
                ELSE e,
                override.slot, pres, e.conts[obj].items[pos].slot),
            LAMBDA e2 : IF pres THEN [e2 EXCEPT !.ov.path = e.ov.path] ELSE e2)
    ELSE With(AppendCopy(e, obj, override.key, TRUE, override.key_span,
                         override.key_presentation, override.slot),
              LAMBDA e1 :
                  IF pres
                  THEN yaml_pres_override_add_node(
                           e1, e.ov.path \o FmtKey(override.key), FALSE,
                           ClearData)
                  ELSE e1))

\* t_yaml_env_merge_obj from field i of the override on
RECURSIVE t_yaml_env_merge_obj(_, _, _, _, _)
t_yaml_env_merge_obj(e, override, pres, obj, i) ==
    LET fields == e.conts[override].items IN
    IF i > Len(fields) \/ e.res < 0 THEN e
    ELSE IF lstr_startswith(fields[i].key, <<"$">>)
    THEN t_yaml_env_merge_obj(e, override, pres, obj, i + 1)
    ELSE t_yaml_env_merge_obj(
             t_yaml_env_merge_key_data(e, fields[i], pres, obj),
             override, pres, obj, i + 1)

t_yaml_env_merge_data(e, override, pres, data) ==
    LET o == e.mem[override]
        d == e.mem[data]
    IN IF d.type # o.type
       THEN yaml_env_set_err_at(e, o.span, YAML_ERR_INVALID_OVERRIDE,
                "overridden data is " \o yaml_data_get_data_type(d)
                \o " and not " \o yaml_data_get_data_type(o))
       ELSE IF d.type = "scalar" THEN
           With(t_yaml_merge_scalar(
                    IF pres THEN [e EXCEPT !.ov.path = @ \o <<"!">>] ELSE e,
                    override, pres, data),
                LAMBDA e2 : IF pres THEN [e2 EXCEPT !.ov.path = e.ov.path]
                            ELSE e2)
       ELSE IF d.type = "seq"
       THEN yaml_env_merge_seq(e, o.cont, pres, d.cont)
       ELSE t_yaml_env_merge_obj(e, o.cont, pres, d.cont, 1)

(***************************************************************************)
(* Variable settings, override and data                                    *)
(***************************************************************************)

\* an include whose settings of variables are not looked for
yaml_env_skip_variables(e, min_indent, inc) == e

\* t_yaml_env_handle_variables: e.vars is the map `variables`, inc the
\* yaml__presentation_include__t `pres` (0 for NULL).  The local `data`
\* receives the object of the settings
t_yaml_env_handle_variables(e, min_indent, inc) ==
    Try(yaml_env_ltrim(e), LAMBDA e1 :
    IF \/ ps_done(e1)
       \/ yaml_env_get_column_nb(e1) < min_indent
       \/ ~ps_startswith_yaml_key(e1, TRUE)
    THEN e1
    ELSE
    With(AllocData(e1), LAMBDA a :
    Try(t_yaml_env_parse_obj(a, yaml_env_get_column_nb(e1), TRUE, a.ret),
        LAMBDA e2 :
    Try(t_yaml_env_replace_variables([e2 EXCEPT !.vars = e.vars], a.ret),
        LAMBDA e3 :
    KillData(IF inc # 0
             THEN [e3 EXCEPT !.incs[inc].has_variables = TRUE,
                             !.incs[inc].variables = e3.names]
             ELSE e3,
             a.ret)))))

t_presentation_override_to_iop(e, inc, override_data) ==
    [e EXCEPT !.incs[inc].has_override = TRUE,
              !.incs[inc].override_nodes = e.ov.nodes,
              !.incs[inc].override_presentation =
                  t_yaml_data_get_presentation(e, override_data)]

NoOverride == [nodes |-> <<>>, path |-> <<>>]

t_yaml_env_handle_override(e, min_indent, out) ==
    Try(yaml_env_ltrim(e), LAMBDA e1 :
    IF \/ ps_done(e1)
       \/ yaml_env_get_column_nb(e1) < min_indent
       \/ ~ps_startswith_yaml_key(e1, FALSE)
    THEN e1
    ELSE
    With(AllocData(e1), LAMBDA a :
    Try(t_yaml_env_parse_obj(a, yaml_env_get_column_nb(e1), FALSE, a.ret),
        LAMBDA e2 :
    With(t_yaml_env_merge_data([e2 EXCEPT !.ov = NoOverride], a.ret,
                               e2.flags.gen_pres, out),
         LAMBDA e3 :
    LET override == a.ret
        pres == e2.flags.gen_pres
        node == e3.mem[out].pres
    IN IF e3.res < 0 THEN [e3 EXCEPT !.ov = NoOverride]
       ELSE IF ~pres THEN KillData(e3, override)
       ELSE IF node = 0 \/ e3.nodes[node].included = 0
       THEN [e3 EXCEPT !.res = Crashed, !.ov = NoOverride]
       ELSE KillData([t_presentation_override_to_iop(
                          e3, e3.nodes[node].included, override)
                      EXCEPT !.ov = NoOverride],
                     override)))))

\* an include whose settings and override have to start one column further
t_yaml_env_handle_include_deeper(e, min_indent, data) ==
    LET tag == e.mem[data].tag IN
    IF tag # Str_include /\ tag # Str_includeraw THEN e ELSE
    Try(t_yaml_env_do_include(e, tag = Str_includeraw, data), LAMBDA e1 :
    Try(t_yaml_env_handle_variables(
            e1, min_indent + 1,
            IF e1.mem[data].pres # 0
            THEN e1.nodes[e1.mem[data].pres].included ELSE 0),
        LAMBDA e2 :
    Try(t_yaml_env_handle_override(e2, min_indent + 1, data), LAMBDA e3 :
    [yaml_env_merge_variables(e3, e2.vars) EXCEPT !.vars = <<>>])))

t_yaml_env_handle_include(e, min_indent, data) ==
    LET tag == e.mem[data].tag IN
    IF tag # Str_include /\ tag # Str_includeraw THEN e ELSE
    Try(t_yaml_env_do_include(e, tag = Str_includeraw, data), LAMBDA e1 :
    Try(t_yaml_env_handle_variables(
            e1, min_indent,
            IF e1.mem[data].pres # 0
            THEN e1.nodes[e1.mem[data].pres].included ELSE 0),
        LAMBDA e2 :
    Try(t_yaml_env_handle_override(e2, min_indent, data), LAMBDA e3 :
    [yaml_env_merge_variables(e3, e2.vars) EXCEPT !.vars = <<>>])))

\* ctype_tag: a-zA-Z0-9.
RECURSIVE SpanTag(_, _)
SpanTag(s, i) ==
    IF i > Len(s) \/ ~(isalnum(s[i]) \/ s[i] = ".") THEN i
    ELSE SpanTag(s, i + 1)

t_yaml_env_parse_tag(e, min_indent, out) ==
    With(yaml_env_skipc(e), LAMBDA e1 :
    With(SpanTag(Text(e), e1.ps), LAMBDA stop :
    With([e1 EXCEPT !.ps = stop], LAMBDA e2 :
    IF ~isalpha(ps_peekc(e1))
    THEN yaml_env_set_err(e1, YAML_ERR_INVALID_TAG,
                          "must start with a letter")
    ELSE IF ~isspace(ps_peekc(e2))
    THEN yaml_env_set_err(e2, YAML_ERR_INVALID_TAG,
                          "must only contain alphanumeric characters")
    ELSE
    Try(t_yaml_env_parse_data(e2, min_indent, out), LAMBDA e3 :
    IF e3.mem[out].has_tag
    THEN yaml_env_set_err(e3, YAML_ERR_WRONG_OBJECT,
                          "two tags have been declared")
    ELSE [e3 EXCEPT !.mem[out].has_tag = TRUE,
                    !.mem[out].tag = SubSeq(Text(e), e1.ps, stop - 1),
                    !.mem[out].span.s = e.ps]))))

t_yaml_env_parse_data(e, min_indent, out) ==
    Try(yaml_env_ltrim(e), LAMBDA e1 :
    With(yaml_env_get_column_nb(e1), LAMBDA cur_indent :
    IF ps_done(e1)
    THEN yaml_env_set_err(e1, YAML_ERR_MISSING_DATA, "unexpected end of line")
    ELSE IF cur_indent < min_indent
    THEN yaml_env_set_err(e1, YAML_ERR_WRONG_INDENT, "missing element")
    ELSE IF ps_peekc(e1) = "!" THEN
        Try(t_yaml_env_parse_tag(e1, min_indent, out), LAMBDA e2 :
            t_yaml_env_handle_include(e2, min_indent + 1, out))
    ELSE IF ps_startswith_yaml_seq_prefix(e1)
    THEN t_yaml_env_parse_seq(e1, cur_indent, out)
    ELSE IF ps_peekc(e1) = "[" THEN
        Try(t_yaml_env_parse_flow_seq(e1, out), LAMBDA e2 :
            IF Len(e2.conts[e2.mem[out].cont].items) > 0
            THEN t_yaml_env_pres_set_flow_mode(e2) ELSE e2)
    ELSE IF ps_peekc(e1) = "{" THEN
        Try(t_yaml_env_parse_flow_obj(e1, out), LAMBDA e2 :
            IF Len(e2.conts[e2.mem[out].cont].items) > 0
            THEN t_yaml_env_pres_set_flow_mode(e2) ELSE e2)
    ELSE IF ps_startswith_yaml_key(e1, FALSE)
    THEN t_yaml_env_parse_obj(e1, cur_indent, FALSE, out)
    ELSE t_yaml_env_parse_scalar(e1, FALSE, out)))

(***************************************************************************)
(* Parser public API                                                       *)
(***************************************************************************)

\* the names of the variables of a map, in the order of the map
MapNames(variables) == [i \in 1..Len(variables) |-> variables[i].name]

set_unbound_variables_err(e) ==
    [e EXCEPT !.err = [pfx |-> "the document is invalid",
                       msg |-> "there are unbound variables",
                       fid |-> 0, s |-> 0, e |-> 0,
                       names |-> MapNames(e.variables)]]

\* t_yaml_parse(env, out, out_err): e.res is the returned value, e.out_err
\* the buffer of the caller.  `end` is the label of the C code
t_yaml_parse(e, out) ==
    LET end(x, res) == [x EXCEPT !.out_err = IF res < 0 THEN x.err ELSE @,
                                 !.ps = e.ps, !.res = res]
    IN With(t_yaml_env_parse_data(
                IF e.flags.gen_pres
                THEN [e EXCEPT !.has_pres = TRUE, !.last_node = NullLoc,
                               !.next_node = 0]
                ELSE e,
                0, out),
            LAMBDA e1 :
       IF e1.res = Crashed THEN e1
       ELSE IF e1.res < 0 THEN end(e1, -1)
       ELSE
       Try(yaml_env_ltrim(e1), LAMBDA e2 :
       IF ~ps_done(e2)
       THEN end(yaml_env_set_err(e2, YAML_ERR_EXTRA_DATA,
                                 "expected end of document"), -1)
       ELSE IF Len(e2.variables) > 0 /\ ~e2.flags.allow_unbound
       THEN end(set_unbound_variables_err(e2), -1)
       ELSE end(e2, 0)))

(***************************************************************************)
(* Parsing contexts and the AST they produce                               *)
(***************************************************************************)

\* t_yaml_parse_new(flags) over an empty heap; files is the disk, ub the
\* outcome of the undefined behaviours of the run
t_yaml_parse_new(flags, files, ub) ==
    [mem |-> <<>>, conts |-> <<>>, nodes |-> <<>>, incs |-> <<>>,
     cells |-> <<>>, dead |-> {}, texts |-> <<>>, fid |-> 0, ps |-> 1,
     line_number |-> 1, pos_newline |-> 1, flags |-> flags, err |-> NoErr,
     out_err |-> NoErr, has_pres |-> FALSE, last_node |-> NullLoc,
     next_node |-> 0, variables |-> <<>>, fullpath |-> <<>>,
     has_fullpath |-> FALSE, chain |-> <<>>, res |-> 0, pc |-> <<>>,
     ret |-> 0, ub |-> ub, files |-> files, reads |-> <<>>,
     opened |-> <<>>, vars |-> <<>>,
     names |-> <<>>, key |-> <<>>, key_span |-> NoSpan, has_key |-> FALSE,
     ov |-> NoOverride]

yaml_parse_attach_ps(e, text) ==
    [e EXCEPT !.texts = Append(@, text), !.fid = Len(e.texts) + 1, !.ps = 1,
              !.pos_newline = 1, !.line_number = 1]

\* t_yaml_parse_new, yaml_parse_attach_ps and t_yaml_parse into a new
\* yaml_data_t, which e.ret names: the parsing of a stream
ParseStream(text, flags, files, ub) ==
    With(AllocData(yaml_parse_attach_ps(t_yaml_parse_new(flags, files, ub),
                                        text)),
         LAMBDA a : [t_yaml_parse(a, a.ret) EXCEPT !.ret = a.ret])

\* t_yaml_parse_new, t_yaml_parse_attach_file(env, filepath, NULL, err) and
\* t_yaml_parse: the parsing of a file of the disk
ParseFile(filepath, flags, files, ub) ==
    With(t_yaml_parse_attach_file(files, filepath, <<>>, FALSE), LAMBDA att :
    With(t_yaml_parse_new(flags, files, ub), LAMBDA n :
    IF ~att.ok
    THEN [n EXCEPT !.res = -1, !.out_err = [NoErr EXCEPT !.msg = att.msg]]
    ELSE With(AllocData([yaml_parse_attach_ps(n, att.contents)
                         EXCEPT !.fullpath = att.fullpath,
                                !.has_fullpath = TRUE,
                                !.reads = <<att.fullpath>>,
                                !.opened = <<<<att.fullpath>>>>]),
              LAMBDA a : [t_yaml_parse(a, a.ret) EXCEPT !.ret = a.ret])))

\* the value of a yaml_data_t, without spans and presentation: what two
\* equal ASTs share
RECURSIVE Tree(_, _)
Tree(e, slot) ==
    LET d == e.mem[slot] IN
    IF d.type = "scalar"
    THEN [type |-> "scalar", tag |-> IF d.has_tag THEN d.tag ELSE <<>>,
          has_tag |-> d.has_tag, stype |-> d.stype,
          s |-> IF d.stype = "string" THEN d.s ELSE <<>>,
          n |-> IF d.stype \in {"uint", "int"} THEN d.n ELSE 0,
          b |-> d.stype = "bool" /\ d.b,
          d |-> IF d.stype = "double" THEN d.d ELSE ""]
    ELSE IF d.type = "none" THEN [type |-> "none"]
    ELSE [type |-> d.type, tag |-> IF d.has_tag THEN d.tag ELSE <<>>,
          has_tag |-> d.has_tag,
          items |-> [i \in 1..Len(e.conts[d.cont].items) |->
                        [key |-> e.conts[d.cont].items[i].key,
                         val |-> Tree(e, e.conts[d.cont].items[i].slot)]]]

(***************************************************************************)
(* Packer: the packing context, the writer and its state                   *)
(***************************************************************************)

YAML_STD_INDENT == 2

\* t_yaml_pack_env_new over the heap of e, the AST to pack and its
\* presentation nodes.  `disk` are the files of the disk, `written` the
\* writes of subfiles in order, `ovs` the yaml_pack_override_t of the
\* includes being packed (`overrides` is the stack of those that are
\* active), `subfiles` the map from paths to checksums
t_yaml_pack_env_new(e, disk) ==
    [mem |-> e.mem, conts |-> e.conts, nodes |-> e.nodes, incs |-> e.incs,
     ret |-> 0, res |-> 0, first |-> TRUE, path |-> <<>>, reuse |-> FALSE,
     contents |-> <<>>, out |-> <<>>, nowrite |-> FALSE,
     state |-> "ON_NEWLINE", indent_lvl |-> 0, has_pres |-> FALSE,
     pres |-> <<>>, absolute_path |-> <<>>, current_path_pos |-> 0,
     outdirpath |-> <<>>, flags |-> [no_subfiles |-> FALSE],
     has_subfiles |-> FALSE, subfiles |-> <<>>, overrides |-> <<>>,
     ovs |-> <<>>, active_vars |-> <<>>, disk |-> disk, written |-> <<>>,
     last_goto |-> "none", untimely |-> FALSE]

\* the states in which a token is written
TokenStates == {"CLEAN", "ON_DASH", "ON_KEY"}

\* a text that is more than spaces and newlines
HasToken(s) == \E i \in 1..Len(s) : s[i] \notin {" ", "\n"}

\* do_write through sb_write, or through write_nothing.  Two history fields
\* follow the calls: last_goto is the target of the last
\* yaml_pack_goto_state of the context, untimely is set when a token is
\* written after a transition to a state that is not one of TokenStates
do_write(p, s) ==
    [IF p.nowrite THEN p ELSE [p EXCEPT !.out = @ \o s]
     EXCEPT !.untimely = @ \/ (HasToken(s) /\ p.last_goto \notin TokenStates)]

Spaces(n) == [i \in 1..n |-> " "]

do_indent(p) == [do_write(p, Spaces(p.indent_lvl)) EXCEPT !.state = "CLEAN"]

\* the table where a dash or a key that follows a data is put on a new
\* line without its indentation
TransitionFlat(state, new_state) ==
    IF state = "CLEAN"
    THEN (IF new_state = "ON_NEWLINE" THEN "\n" ELSE "")
    ELSE IF state = "ON_DASH"
    THEN (IF new_state \in {"CLEAN", "ON_KEY", "ON_DASH"} THEN " "
          ELSE IF new_state = "ON_NEWLINE" THEN "\n" ELSE "")
    ELSE IF state = "ON_KEY"
    THEN (IF new_state = "CLEAN" THEN " "
          ELSE IF new_state = "ON_NEWLINE" THEN "\n"
          ELSE IF new_state \in {"ON_DASH", "ON_KEY"} THEN "\n+" ELSE "")
    ELSE IF state = "ON_NEWLINE"
    THEN (IF new_state \in {"CLEAN", "ON_DASH", "ON_KEY"} THEN "+" ELSE "")
    ELSE (IF new_state = "ON_NEWLINE" THEN "\n"
          ELSE IF new_state = "CLEAN" THEN " "
          ELSE IF new_state \in {"ON_DASH", "ON_KEY"} THEN "\n" ELSE "")

\* what yaml_pack_goto_state writes: "" nothing, " " a space, "\n" a
\* newline, "\n+" a newline and the indentation, "+" the indentation
Transition(state, new_state) ==
    IF state = "CLEAN"
    THEN (IF new_state = "ON_NEWLINE" THEN "\n" ELSE "")
    ELSE IF state = "ON_DASH"
    THEN (IF new_state \in {"CLEAN", "ON_KEY", "ON_DASH"} THEN " "
          ELSE IF new_state = "ON_NEWLINE" THEN "\n" ELSE "")
    ELSE IF state = "ON_KEY"
    THEN (IF new_state = "CLEAN" THEN " "
          ELSE IF new_state = "ON_NEWLINE" THEN "\n"
          ELSE IF new_state \in {"ON_DASH", "ON_KEY"} THEN "\n+" ELSE "")
    ELSE IF state = "ON_NEWLINE"
    THEN (IF new_state \in {"CLEAN", "ON_DASH", "ON_KEY"} THEN "+" ELSE "")
    ELSE (IF new_state = "ON_NEWLINE" THEN "\n"
          ELSE IF new_state = "CLEAN" THEN " "
          ELSE IF new_state \in {"ON_DASH", "ON_KEY"} THEN "\n+" ELSE "")

yaml_pack_goto_state(p, new_state) ==
    With(Transition(p.state, new_state), LAMBDA t :
        [IF t = " " THEN do_write(p, <<" ">>)
         ELSE IF t = "\n" THEN do_write(p, <<"\n">>)
         ELSE IF t = "\n+" THEN do_indent(do_write(p, <<"\n">>))
         ELSE IF t = "+" THEN do_indent(p)
         ELSE p
         EXCEPT !.state = new_state, !.last_goto = new_state])

yaml_pack_tag(p, has_tag, tag) ==
    IF ~has_tag THEN p
    ELSE [do_write(yaml_pack_goto_state(p, "CLEAN"), <<"!">> \o tag)
          EXCEPT !.state = "AFTER_DATA"]

(***************************************************************************)
(* Packer: presentation                                                    *)
(***************************************************************************)

\* a pointer to a presentation node, or NULL
NoNode == [has |-> FALSE, node |-> EmptyNode]
SomeNode(n) == [has |-> TRUE, node |-> n]
NodeOf(p, id) == IF id = 0 THEN NoNode ELSE SomeNode(p.nodes[id])

yaml_pack_env_push_path(p, s) ==
    IF ~p.has_pres THEN p ELSE [p EXCEPT !.absolute_path = @ \o s]

yaml_pack_env_pop_path(p, prev_len) ==
    IF ~p.has_pres THEN p
    ELSE [p EXCEPT !.absolute_path = SubSeq(@, 1, prev_len)]

yaml_pack_env_get_curpath(p) ==
    SubSeq(p.absolute_path, p.current_path_pos + 1, Len(p.absolute_path))

\* qm_get_def_safe on the map built by t_yaml_doc_pres_to_map
RECURSIVE FindPres(_, _, _)
FindPres(mappings, path, i) ==
    IF i > Len(mappings) THEN NoNode
    ELSE IF mappings[i].path = path THEN SomeNode(mappings[i].node)
    ELSE FindPres(mappings, path, i + 1)

yaml_pack_env_get_pres_node(p) ==
    FindPres(p.pres, yaml_pack_env_get_curpath(p), 1)

yaml_pack_empty_lines(p, nb_lines) ==
    IF nb_lines = 0 THEN p
    ELSE do_write(yaml_pack_goto_state(p, "ON_NEWLINE"),
                  [i \in 1..nb_lines |-> "\n"])

RECURSIVE pack_prefix_comments(_, _)
pack_prefix_comments(p, comments) ==
    IF comments = <<>> THEN p
    ELSE pack_prefix_comments(
             [do_write(yaml_pack_goto_state(p, "CLEAN"),
                       <<"#", " ">> \o Head(comments) \o <<"\n">>)
              EXCEPT !.state = "ON_NEWLINE"],
             Tail(comments))

yaml_pack_pres_node_prefix(p, node) ==
    IF ~node.has THEN p
    ELSE With(yaml_pack_empty_lines(p, node.node.empty_lines), LAMBDA p1 :
              IF node.node.prefix_comments = <<>> THEN p1
              ELSE pack_prefix_comments(
                       yaml_pack_goto_state(p1, "ON_NEWLINE"),
                       node.node.prefix_comments))

yaml_pack_pres_node_inline(p, node) ==
    IF node.has /\ node.node.inline_comment # <<>>
    THEN [do_write(yaml_pack_goto_state(p, "CLEAN"),
                   <<"#", " ">> \o node.node.inline_comment \o <<"\n">>)
          EXCEPT !.state = "ON_NEWLINE"]
    ELSE p

(***************************************************************************)
(* Packer: scalars                                                         *)
(***************************************************************************)

\* yaml_invalid_raw_string_start
invalid_raw_string_start(c) == c \in {"!", "\"", "&", "*", "-", ".", "[", "{"}

\* yaml_raw_string_contains: printable ASCII minus ':' and '#'
raw_string_contains(c) == isprint(c) /\ c \notin {":", "#"}

yaml_string_must_be_quoted(s) ==
    \/ Len(s) = 0
    \/ invalid_raw_string_start(s[1])
    \/ \E i \in 1..Len(s) : ~raw_string_contains(s[i])
    \/ s[1] = " "
    \/ s[Len(s)] = " "
    \/ s = <<"~">>
    \/ s = Str_null

\* the escape sequence of a character that is not one of the safe_chars
Escape(c) ==
    CASE c = "\"" -> <<"\\", "\"">>
      [] c = "\\" -> <<"\\", "\\">>
      [] c = "\n" -> <<"\\", "n">>
      [] c = "\r" -> <<"\\", "r">>
      [] c = "\t" -> <<"\\", "t">>
      [] OTHER -> <<c>>

yaml_pack_string(p, val) ==
    IF ~yaml_string_must_be_quoted(val) THEN do_write(p, val)
    ELSE do_write(p, <<"\"">>
                     \o Concat([i \in 1..Len(val) |-> Escape(val[i])])
                     \o <<"\"">>)

\* "%ju" / "%jd"
FmtInt(n) == IF n < 0 THEN <<"-">> \o FmtNat(0 - n) ELSE FmtNat(n)

yaml_pack_scalar(p, d) ==
    With(yaml_pack_goto_state(p, "CLEAN"), LAMBDA p1 :
        [IF d.stype = "string" THEN yaml_pack_string(p1, d.s)
         ELSE IF d.stype = "double"
         THEN do_write(p1, IF d.d = "inf" THEN <<".", "I", "n", "f">>
                           ELSE IF d.d = "-inf"
                           THEN <<"-", ".", "I", "n", "f">>
                           ELSE <<".", "N", "a", "N">>)
         ELSE IF d.stype \in {"uint", "int"} THEN do_write(p1, FmtInt(d.n))
         ELSE IF d.stype = "bool"
         THEN do_write(p1, IF d.b THEN Str_true ELSE Str_false)
         ELSE do_write(p1, <<"~">>)
         EXCEPT !.state = "AFTER_DATA"])

(***************************************************************************)
(* Packer: overrides in effect                                             *)
(***************************************************************************)

\* position in the nodes of a yaml_pack_override_t of the node of `path`
\* (qm_find on override_nodes), 0 without one
RECURSIVE FindOverrideNode(_, _, _)
FindOverrideNode(ovnodes, path, i) ==
    IF i > Len(ovnodes) THEN 0
    ELSE IF ovnodes[i].path = path THEN i
    ELSE FindOverrideNode(ovnodes, path, i + 1)

NoRef == [ov |-> 0, node |-> 0]

\* yaml_pack_env_find_override from position ov_pos of the stack down:
\* the override and the node of the absolute path, NoRef for NULL
RECURSIVE find_override_rev(_, _)
find_override_rev(p, ov_pos) ==
    IF ov_pos = 0 THEN NoRef
    ELSE With(FindOverrideNode(p.ovs[p.overrides[ov_pos]].nodes,
                               p.absolute_path, 1),
              LAMBDA pos :
                  IF pos # 0 THEN [ov |-> p.overrides[ov_pos], node |-> pos]
                  ELSE find_override_rev(p, ov_pos - 1))

yaml_pack_env_find_override(p) == find_override_rev(p, Len(p.overrides))

OverrideData(p, ref) == p.ovs[ref.ov].nodes[ref.node].data

\* override->data = data; override->found = true
SetOverrideData(p, ref, data) ==
    [p EXCEPT !.ovs[ref.ov].nodes[ref.node].data = data,
              !.ovs[ref.ov].nodes[ref.node].found = TRUE]

yaml_env_path_contains_overrides(p) ==
    \E i \in 1..Len(p.overrides) :
        \E j \in 1..Len(p.ovs[p.overrides[i]].nodes) :
            lstr_startswith(p.ovs[p.overrides[i]].nodes[j].path,
                            p.absolute_path)

RECURSIVE yaml_data_contains_tags(_, _)
yaml_data_contains_tags(p, data) ==
    LET d == p.mem[data] IN
    \/ d.has_tag
    \/ /\ d.type \in {"seq", "obj"}
       /\ \E i \in 1..Len(p.conts[d.cont].items) :
              yaml_data_contains_tags(p, p.conts[d.cont].items[i].slot)

yaml_env_data_can_use_flow_mode(p, data) ==
    /\ ~yaml_env_path_contains_overrides(p)
    /\ ~yaml_data_contains_tags(p, data)

(***************************************************************************)
(* Packer: flow data                                                       *)
(***************************************************************************)

RECURSIVE yaml_pack_flow_data(_, _, _)

\* the loop of yaml_pack_flow_seq from position pos (0-based) on
RECURSIVE pack_flow_seq_loop(_, _, _)
pack_flow_seq_loop(p, items, pos) ==
    IF pos >= Len(items) THEN p
    ELSE pack_flow_seq_loop(
             yaml_pack_flow_data(
                 IF pos > 0 THEN do_write(p, <<",", " ">>) ELSE p,
                 items[pos + 1].slot, TRUE),
             items, pos + 1)

yaml_pack_flow_seq(p, c) ==
    LET items == p.conts[c].items IN
    IF Len(items) = 0 THEN do_write(p, <<"[", "]">>)
    ELSE do_write(pack_flow_seq_loop(do_write(p, <<"[", " ">>), items, 0),
                  <<" ", "]">>)

RECURSIVE pack_flow_obj_loop(_, _, _)
pack_flow_obj_loop(p, items, pos) ==
    IF pos >= Len(items) THEN p
    ELSE pack_flow_obj_loop(
             yaml_pack_flow_data(
                 do_write(IF pos > 0 THEN do_write(p, <<",", " ">>) ELSE p,
                          items[pos + 1].key \o <<":", " ">>),
                 items[pos + 1].slot, FALSE),
             items, pos + 1)

yaml_pack_flow_obj(p, c, can_omit_brackets) ==
    LET items == p.conts[c].items
        omit_brackets == can_omit_brackets /\ Len(items) = 1
    IN IF Len(items) = 0 THEN do_write(p, <<"{", "}">>)
       ELSE With(pack_flow_obj_loop(
                     IF omit_brackets THEN p ELSE do_write(p, <<"{", " ">>),
                     items, 0),
                 LAMBDA p2 : IF omit_brackets THEN p2
                             ELSE do_write(p2, <<" ", "}">>))

\* assert (!data->tag.s): a tagged data stops the call
yaml_pack_flow_data(p, data, can_omit_brackets) ==
    LET d == p.mem[data]
        p1 == IF d.type = "scalar" THEN yaml_pack_scalar(p, d)
              ELSE IF d.type = "seq" THEN yaml_pack_flow_seq(p, d.cont)
              ELSE yaml_pack_flow_obj(p, d.cont, can_omit_brackets)
    IN IF d.has_tag THEN [p EXCEPT !.res = Crashed]
       ELSE [p1 EXCEPT !.state = "CLEAN"]

(***************************************************************************)
(* Packer: block sequences and objects                                     *)
(***************************************************************************)

RECURSIVE t_yaml_pack_data(_, _)

\* the loop of t_yaml_pack_seq from position pos (0-based) on
RECURSIVE pack_seq_loop(_, _, _)
pack_seq_loop(p, c, pos) ==
    LET items == p.conts[c].items
        pres_nodes == p.conts[c].pres_nodes
    IN IF pos >= Len(items) \/ p.res < 0 THEN p ELSE
    With(yaml_pack_env_push_path(p, FmtIndex(pos)), LAMBDA p1 :
    With(IF p.has_pres THEN yaml_pack_env_get_pres_node(p1)
         ELSE IF pos < Len(pres_nodes) THEN NodeOf(p, pres_nodes[pos + 1])
         ELSE NoNode,
         LAMBDA node :
    With(yaml_pack_env_find_override(p1), LAMBDA override :
    LET data == items[pos + 1].slot
        path_len == Len(p.absolute_path)
    IN IF override # NoRef /\ OverrideData(p1, override) = 0
       THEN pack_seq_loop(
                yaml_pack_env_pop_path(SetOverrideData(p1, override, data),
                                       path_len),
                c, pos + 1)
       ELSE
    With(do_write(yaml_pack_goto_state(
                      yaml_pack_pres_node_prefix(p1, node), "ON_DASH"),
                  <<"-">>),
         LAMBDA p2 :
    Try(t_yaml_pack_data(
            yaml_pack_pres_node_inline(
                [p2 EXCEPT !.indent_lvl = @ + YAML_STD_INDENT], node),
            data),
        LAMBDA p4 :
    pack_seq_loop(
        yaml_pack_env_pop_path(
            [p4 EXCEPT !.indent_lvl = @ - YAML_STD_INDENT], path_len),
        c, pos + 1))))))

t_yaml_pack_seq(p, c) ==
    IF Len(p.conts[c].items) = 0
    THEN [do_write(yaml_pack_goto_state(p, "CLEAN"), <<"[", "]">>)
          EXCEPT !.state = "AFTER_DATA"]
    ELSE pack_seq_loop(p, c, 0)

t_yaml_pack_key_data(p, kd) ==
    With(yaml_pack_env_push_path(p, FmtKey(kd.key)), LAMBDA p1 :
    With(IF p.has_pres THEN yaml_pack_env_get_pres_node(p1)
         ELSE NodeOf(p, kd.key_presentation),
         LAMBDA node :
    With(yaml_pack_env_find_override(p1), LAMBDA override :
    LET path_len == Len(p.absolute_path)
    IN IF override # NoRef /\ OverrideData(p1, override) = 0
       THEN yaml_pack_env_pop_path(SetOverrideData(p1, override, kd.slot),
                                   path_len)
       ELSE
    With(do_write(yaml_pack_goto_state(
                      yaml_pack_pres_node_prefix(p1, node), "ON_KEY"),
                  kd.key \o <<":">>),
         LAMBDA p2 :
    Try(t_yaml_pack_data(
            yaml_pack_pres_node_inline(
                [p2 EXCEPT !.indent_lvl = @ + YAML_STD_INDENT], node),
            kd.slot),
        LAMBDA p4 :
    yaml_pack_env_pop_path(
        [p4 EXCEPT !.indent_lvl = @ - YAML_STD_INDENT], path_len))))))

RECURSIVE pack_obj_loop(_, _, _)
pack_obj_loop(p, c, i) ==
    IF i > Len(p.conts[c].items) \/ p.res < 0 THEN p
    ELSE pack_obj_loop(t_yaml_pack_key_data(p, p.conts[c].items[i]), c, i + 1)

yaml_pack_obj(p, c) ==
    IF Len(p.conts[c].items) = 0
    THEN [do_write(yaml_pack_goto_state(p, "CLEAN"), <<"{", "}">>)
          EXCEPT !.state = "AFTER_DATA"]
    ELSE pack_obj_loop(p, c, 1)

(***************************************************************************)
(* Packer: the override of an include                                      *)
(***************************************************************************)

\* t_iop_data_to_yaml: the scalar of an original data, in a new yaml_data_t
t_iop_data_to_yaml(o) ==
    [ClearData EXCEPT !.type = "scalar", !.stype = o.stype, !.s = o.s,
                      !.n = o.n, !.b = o.b, !.d = o.d, !.has_tag = o.has_tag,
                      !.tag = o.tag]

\* the loop of t_iop_pres_override_to_pack_override over the nodes of the
\* presentation, from node i on; k is the yaml_pack_override_t being filled.
\* assert (res >= 0) on qm_add: a path met twice stops the call
RECURSIVE pack_override_nodes(_, _, _, _)
pack_override_nodes(p, k, nodes, i) ==
    IF i > Len(nodes) \/ p.res < 0 THEN p ELSE
    With(IF nodes[i].has_data
         THEN With(AllocData(p), LAMBDA a :
                   [a EXCEPT !.mem[a.ret] =
                                 t_iop_data_to_yaml(nodes[i].original_data)])
         ELSE [p EXCEPT !.ret = 0],
         LAMBDA p1 :
    LET path == p.absolute_path \o nodes[i].path
    IN IF FindOverrideNode(p.ovs[k].nodes, path, 1) # 0
       THEN [p EXCEPT !.res = Crashed]
       ELSE pack_override_nodes(
                [p1 EXCEPT !.ovs[k].nodes =
                               Append(@, [path |-> path, data |-> p1.ret,
                                          found |-> FALSE])],
                k, nodes, i + 1))

\* qv_growlen0(&env->overrides, 1) and t_iop_pres_override_to_pack_override
t_iop_pres_override_to_pack_override(p, inc) ==
    LET k == Len(p.ovs) + 1
        p1 == [p EXCEPT !.ovs = Append(@, [inc |-> inc, nodes |-> <<>>]),
                        !.overrides = Append(@, k)]
    IN pack_override_nodes(p1, k, p.incs[inc].override_nodes, 1)

\* ps_skip_afterchr(&path, ']')
AfterBracket(path) == SubSeq(path, IndexFrom(path, "]", 1) + 1, Len(path))

\* yaml_obj_add_field / yaml_seq_add_data of the data of slot `from`
AddField(p, c, key, has_key, from) ==
    AppendCopy(p, c, key, has_key, NoSpan, 0, from)

\* t_set_data_from_path(data, path, new, out).  expect() logs and lets the
\* function return when the types do not agree
RECURSIVE t_set_data_from_path(_, _, _, _, _)
t_set_data_from_path(p, data, path, new, out) ==
    IF path = <<>> \/ path[1] = "!"
    THEN [p EXCEPT !.mem[out] = p.mem[data]]
    ELSE IF path[1] = "[" THEN
        IF ~new /\ p.mem[out].type # "seq" THEN p
        ELSE
        With(AllocData(IF new
                       THEN With(AllocCont(p), LAMBDA a :
                                 [a EXCEPT !.mem[out] =
                                     [ClearData EXCEPT !.type = "seq",
                                                       !.cont = a.ret]])
                       ELSE p),
             LAMBDA a2 :
        With(t_set_data_from_path(a2, data, AfterBracket(path), TRUE, a2.ret),
             LAMBDA p2 :
        AddField(p2, p2.mem[out].cont, <<>>, FALSE, a2.ret)))
    ELSE IF path[1] = "." THEN
        IF ~new /\ p.mem[out].type # "obj" THEN p
        ELSE
        With(SpanAlnum(path, 2), LAMBDA stop :
        With(IF new THEN 0
             ELSE FindKey(p.conts[p.mem[out].cont].items,
                          SubSeq(path, 2, stop - 1), 1),
             LAMBDA pos :
        LET key == SubSeq(path, 2, stop - 1)
            rest == SubSeq(path, stop, Len(path))
        IN IF pos # 0
           THEN t_set_data_from_path(
                    p, data, rest, FALSE,
                    p.conts[p.mem[out].cont].items[pos].slot)
           ELSE
        With(AllocData(IF new
                       THEN With(AllocCont(p), LAMBDA a :
                                 [a EXCEPT !.mem[out] =
                                     [ClearData EXCEPT !.type = "obj",
                                                       !.cont = a.ret]])
                       ELSE p),
             LAMBDA a2 :
        With(t_set_data_from_path(a2, data, rest, TRUE, a2.ret), LAMBDA p2 :
        AddField(p2, p2.mem[out].cont, key, TRUE, a2.ret)))))
    ELSE p

\* the loop that takes every node of the override, found or not
RECURSIVE build_override_loop_all(_, _, _, _)
build_override_loop_all(p, k, pos, out) ==
    LET ov == p.ovs[k]
        rel == p.incs[ov.inc].override_nodes
    IN IF pos > Len(rel) \/ p.res < 0 THEN p ELSE
    With(FindOverrideNode(ov.nodes, ov.nodes[pos].path, 1), LAMBDA n :
    IF ov.nodes[n].data = 0 THEN [p EXCEPT !.res = Crashed]
    ELSE build_override_loop_all(
             [t_set_data_from_path(p, ov.nodes[n].data, rel[pos].path,
                                   p.first, out)
              EXCEPT !.first = FALSE],
             k, pos + 1, out))

\* the loop of t_build_override_data from node pos on; p.first is the local
\* `first`.  assert (node->data): a node found without data stops the call
RECURSIVE build_override_loop(_, _, _, _)
build_override_loop(p, k, pos, out) ==
    LET ov == p.ovs[k]
        rel == p.incs[ov.inc].override_nodes
    IN IF pos > Len(rel) \/ p.res < 0 THEN p ELSE
    With(FindOverrideNode(ov.nodes, ov.nodes[pos].path, 1), LAMBDA n :
    IF ~ov.nodes[n].found THEN build_override_loop(p, k, pos + 1, out)
    ELSE IF ov.nodes[n].data = 0 THEN [p EXCEPT !.res = Crashed]
    ELSE build_override_loop(
             [t_set_data_from_path(p, ov.nodes[n].data, rel[pos].path,
                                   p.first, out)
              EXCEPT !.first = FALSE],
             k, pos + 1, out))

\* e.first tells afterwards whether the override is empty (-1 is returned)
t_build_override_data(p, k, out) ==
    build_override_loop([p EXCEPT !.first = TRUE], k, 1, out)

t_yaml_pack_override(p, k) ==
    With(AllocData(p), LAMBDA a :
    Try(t_build_override_data(a, k, a.ret), LAMBDA p1 :
    IF p1.first THEN p1
    ELSE [t_yaml_pack_data(
              [p1 EXCEPT !.has_pres = TRUE,
                         !.pres = p.incs[p.ovs[k].inc].override_presentation,
                         !.current_path_pos = Len(p.absolute_path)],
              a.ret)
          EXCEPT !.has_pres = p.has_pres, !.pres = p.pres,
                 !.current_path_pos = p.current_path_pos]))

(***************************************************************************)
(* Packer: subfiles                                                        *)
(***************************************************************************)

\* sha2_hash_64 of the contents of a subfile.  The model takes the hash to
\* be free of collisions: the checksum of a text is the text
sha2_hash_64(contents) == contents

\* position of `path` in the map path_to_checksum, 0 when it is not a key
RECURSIVE FindSubfile(_, _, _)
FindSubfile(subfiles, path, i) ==
    IF i > Len(subfiles) THEN 0
    ELSE IF subfiles[i].path = path THEN i
    ELSE FindSubfile(subfiles, path, i + 1)

\* a status that does not look at the checksum: a path of the map is reused
subfile_status_by_path(p, checksum, relative_path) ==
    IF FindSubfile(p.subfiles, path_extend(p.outdirpath, relative_path), 1) = 0
    THEN "SUBFILE_TO_CREATE" ELSE "SUBFILE_TO_REUSE"

\* check_subfile: the status, qm_put adds the path when it is not a key
check_subfile_status(p, checksum, relative_path) ==
    With(FindSubfile(p.subfiles, path_extend(p.outdirpath, relative_path), 1),
         LAMBDA pos :
             IF pos = 0 THEN "SUBFILE_TO_CREATE"
             ELSE IF p.subfiles[pos].checksum = checksum
             THEN "SUBFILE_TO_REUSE"
             ELSE "SUBFILE_TO_IGNORE")

check_subfile(p, checksum, relative_path) ==
    IF check_subfile_status(p, checksum, relative_path) = "SUBFILE_TO_CREATE"
    THEN [p EXCEPT !.subfiles =
             Append(@, [path |-> path_extend(p.outdirpath, relative_path),
                        checksum |-> checksum])]
    ELSE p

\* "%pL~%d%s"
NumberedPath(path, counter) ==
    With(path_ext(path), LAMBDA ext :
        IF ext # 0
        THEN SubSeq(path, 1, ext - 1) \o <<"~">> \o FmtNat(counter)
             \o SubSeq(path, ext, Len(path))
        ELSE path \o <<"~">> \o FmtNat(counter))

\* the loop of t_find_right_path: `path` is the candidate, `counter` the
\* next number to try.  p.path and p.reuse are the results
RECURSIVE find_right_path_loop(_, _, _, _, _)
find_right_path_loop(p, checksum, initial, path, counter) ==
    With(check_subfile_status(p, checksum, path), LAMBDA status :
    IF status = "SUBFILE_TO_IGNORE"
    THEN find_right_path_loop(p, checksum, initial,
                              NumberedPath(initial, counter), counter + 1)
    ELSE [check_subfile(p, checksum, path)
          EXCEPT !.path = path, !.reuse = (status = "SUBFILE_TO_REUSE")])

t_find_right_path(p, contents, initial_path) ==
    With(path_simplify(initial_path), LAMBDA path :
        find_right_path_loop(p, sha2_hash_64(contents), path, path, 1))

\* the file of the disk that yaml_pack_write_raw_file writes
yaml_pack_write_raw_file(p, filepath, contents) ==
    LET fullpath == p.outdirpath \o <<"/">> \o filepath
    IN [p EXCEPT !.written = Append(@, [path |-> fullpath,
                                        contents |-> contents]),
                 !.disk = [f \in DOMAIN p.disk \cup {fullpath} |->
                              IF f = fullpath THEN contents ELSE p.disk[f]]]

t_yaml_pack_env_set_outdir(p, dirpath) ==
    [p EXCEPT !.outdirpath = path_canonify(dirpath)]

\* the fields of a yaml_pack_env_t that a packing context owns, as opposed
\* to what it shares with the contexts of its subfiles: those of `parent`
\* put back after the packing of a subfile
RestorePack(p, parent) ==
    [p EXCEPT !.out = parent.out, !.nowrite = parent.nowrite,
              !.state = parent.state, !.last_goto = parent.last_goto,
              !.indent_lvl = parent.indent_lvl,
              !.has_pres = parent.has_pres, !.pres = parent.pres,
              !.absolute_path = parent.absolute_path,
              !.current_path_pos = parent.current_path_pos,
              !.outdirpath = parent.outdirpath, !.flags = parent.flags,
              !.overrides = parent.overrides]

\* t_yaml_pack_subfile_in_sb: p.contents is the buffer `out`
t_yaml_pack_subfile_in_sb(p, inc, data, no_subfiles) ==
    LET subenv ==
            [p EXCEPT !.out = <<>>, !.nowrite = no_subfiles,
                      !.state = "ON_NEWLINE", !.last_goto = "none",
                      !.indent_lvl = 0,
                      !.has_pres = TRUE,
                      !.pres = p.incs[inc].document_presentation,
                      !.current_path_pos = Len(p.absolute_path),
                      !.outdirpath =
                          IF no_subfiles THEN <<>>
                          ELSE path_canonify(path_dirname(
                                   p.outdirpath \o <<"/">> \o p.incs[inc].path))]
    IN With(t_yaml_pack_data(subenv, data), LAMBDA r :
       IF r.res < 0 THEN RestorePack(r, p)
       ELSE [RestorePack(r, p) EXCEPT
                 !.contents = IF r.out # <<>> /\ r.out[Len(r.out)] # "\n"
                              THEN r.out \o <<"\n">> ELSE r.out])

\* t_yaml_pack_include_path: the "!include(raw)? <path>" node
t_yaml_pack_include_path(p, pres, raw, include_path) ==
    With(AllocData(p), LAMBDA a :
        [t_yaml_pack_data(
             [a EXCEPT !.mem[a.ret] =
                 [ClearData EXCEPT !.type = "scalar", !.stype = "string",
                                   !.s = include_path, !.has_tag = TRUE,
                                   !.tag = IF raw THEN Str_includeraw
                                           ELSE Str_include,
                                   !.pres = pres],
                       !.has_pres = FALSE],
             a.ret)
         EXCEPT !.has_pres = p.has_pres])

t_yaml_pack_included_subfile(p, inc, subdata) ==
    LET no_subfiles == p.flags.no_subfiles
        d == p.mem[subdata]
        raw == p.incs[inc].raw /\ d.type = "scalar" /\ d.stype = "string"
        p0 == [p EXCEPT !.has_subfiles = TRUE]
    IN Try(IF raw THEN [p0 EXCEPT !.contents = d.s]
           ELSE t_yaml_pack_subfile_in_sb([p0 EXCEPT !.contents = <<>>],
                                          inc, subdata, no_subfiles),
           LAMBDA p1 :
       With(t_find_right_path(p1, p1.contents, p.incs[inc].path), LAMBDA p2 :
       t_yaml_pack_include_path(
           IF ~p2.reuse /\ ~no_subfiles
           THEN yaml_pack_write_raw_file(p2, p2.path, p1.contents)
           ELSE p2,
           p.incs[inc].include_presentation, raw, p2.path)))

(***************************************************************************)
(* Packer: includes, variables, data                                       *)
(***************************************************************************)

\* position of `name` in the map active_vars, 0 when it is not a key
RECURSIVE FindVar(_, _, _)
FindVar(active, name, i) ==
    IF i > Len(active) THEN 0
    ELSE IF active[i].name = name THEN i
    ELSE FindVar(active, name, i + 1)

\* the fields "$name" of the object of t_yaml_pack_variable_settings, for
\* the variables of the map from position i on
RECURSIVE variable_fields(_, _, _)
variable_fields(p, c, i) ==
    IF i > Len(p.active_vars) THEN p
    ELSE variable_fields(
             IF p.active_vars[i].data # 0
             THEN AddField(p, c, <<"$">> \o p.active_vars[i].name, TRUE,
                           p.active_vars[i].data)
             ELSE p,
             c, i + 1)

t_yaml_pack_variable_settings(p) ==
    With(AllocCont(p), LAMBDA a :
    With(AllocData(a), LAMBDA b :
    With([variable_fields(
              [b EXCEPT !.mem[b.ret] = [ClearData EXCEPT !.type = "obj",
                                                         !.cont = a.ret]],
              a.ret, 1)
          EXCEPT !.active_vars = <<>>],
         LAMBDA p2 :
    IF Len(p2.conts[a.ret].items) = 0 THEN p2
    ELSE [t_yaml_pack_data([p2 EXCEPT !.has_pres = FALSE], b.ret)
          EXCEPT !.has_pres = p.has_pres])))

\* qm_add(active_vars, name, {NULL}) for the names from position i on
RECURSIVE add_active_vars(_, _, _)
add_active_vars(active, names, i) ==
    IF i > Len(names) THEN active
    ELSE add_active_vars(
             IF FindVar(active, names[i], 1) # 0 THEN active
             ELSE Append(active, [name |-> names[i], data |-> 0]),
             names, i + 1)

t_yaml_pack_include_with_override(p, inc, subdata) ==
    LET i == p.incs[inc] IN
    Try(IF i.has_override
        THEN t_iop_pres_override_to_pack_override(p, inc) ELSE p,
        LAMBDA p1 :
    Try(t_yaml_pack_included_subfile(
            IF i.has_variables
            THEN [p1 EXCEPT !.active_vars = add_active_vars(@, i.variables, 1)]
            ELSE p1,
            inc, subdata),
        LAMBDA p3 :
    Try(IF i.has_variables THEN t_yaml_pack_variable_settings(p3) ELSE p3,
        LAMBDA p4 :
    IF ~i.has_override THEN p4
    ELSE t_yaml_pack_override(
             [p4 EXCEPT !.overrides = SubSeq(@, 1, Len(@) - 1)],
             Len(p1.ovs)))))

\* an include node written only when an output directory is set
t_yaml_pack_included_data_outdir(p, data, node) ==
    IF Len(p.outdirpath) > 0
    THEN t_yaml_pack_include_with_override(p, node.included, data)
    ELSE LET p1 == [p EXCEPT !.current_path_pos = Len(p.absolute_path),
                             !.has_pres = TRUE,
                             !.pres = p.incs[node.included]
                                          .document_presentation]
         IN [t_yaml_pack_data(p1, data)
             EXCEPT !.has_pres = p.has_pres, !.pres = p.pres,
                    !.current_path_pos = p.current_path_pos]

t_yaml_pack_included_data(p, data, node) ==
    IF Len(p.outdirpath) > 0 \/ p.flags.no_subfiles
    THEN t_yaml_pack_include_with_override(p, node.included, data)
    ELSE LET p1 == [p EXCEPT !.current_path_pos = Len(p.absolute_path),
                             !.has_pres = TRUE,
                             !.pres = p.incs[node.included]
                                          .document_presentation]
         IN [t_yaml_pack_data(p1, data)
             EXCEPT !.has_pres = p.has_pres, !.pres = p.pres,
                    !.current_path_pos = p.current_path_pos]

t_apply_variable_value(p, var_name, data) ==
    With(FindVar(p.active_vars, var_name, 1), LAMBDA pos :
        IF pos = 0 THEN [p EXCEPT !.ret = -1]
        ELSE [p EXCEPT !.active_vars[pos].data = data, !.ret = 0])

\* p.ret is the returned value
t_deduce_variable_values(p, var_string, data) ==
    With(SpanAlnum(var_string, 2), LAMBDA stop :
    IF var_string = <<>> \/ var_string[1] # "$" THEN [p EXCEPT !.ret = -1]
    ELSE IF stop = 2 \/ stop <= Len(var_string) THEN [p EXCEPT !.ret = -1]
    ELSE t_apply_variable_value(p, SubSeq(var_string, 2, stop - 1), data))

t_yaml_pack_data(p, data0) ==
    With(yaml_pack_env_push_path(p, <<"!">>), LAMBDA pushed :
    With(IF p.has_pres THEN yaml_pack_env_find_override(pushed) ELSE NoRef,
         LAMBDA override :
    With(IF p.has_pres THEN yaml_pack_env_get_pres_node(pushed)
         ELSE NodeOf(p, p.mem[data0].pres),
         LAMBDA node :
    With(override # NoRef /\ OverrideData(p, override) # 0, LAMBDA swap :
    With(IF swap THEN OverrideData(p, override) ELSE data0, LAMBDA data1 :
    With(IF swap THEN SetOverrideData(p, override, data0) ELSE p, LAMBDA p1 :
    IF node.has /\ node.node.included # 0
    THEN t_yaml_pack_included_data(p1, data1, node.node)
    ELSE
    With(IF node.has /\ node.node.has_vwv
         THEN t_deduce_variable_values(p1, node.node.value_with_variables,
                                       data1)
         ELSE [p1 EXCEPT !.ret = -1],
         LAMBDA ded :
    With(AllocData(ded), LAMBDA a :
    With(IF ded.ret >= 0
         THEN [a EXCEPT !.mem[a.ret] =
                  [ClearData EXCEPT !.type = "scalar", !.stype = "string",
                                    !.s = node.node.value_with_variables]]
         ELSE ded,
         LAMBDA p2 :
    With(IF ded.ret >= 0 THEN a.ret ELSE data1, LAMBDA data :
    With(yaml_pack_tag(yaml_pack_pres_node_prefix(p2, node),
                       p2.mem[data].has_tag, p2.mem[data].tag),
         LAMBDA p3 :
    LET d == p2.mem[data] IN
    Try(IF node.has /\ node.node.flow_mode
           /\ yaml_env_data_can_use_flow_mode(p3, data)
        THEN [yaml_pack_flow_data(yaml_pack_goto_state(p3, "CLEAN"),
                                  data, FALSE)
              EXCEPT !.state = "AFTER_DATA"]
        ELSE IF d.type = "scalar" THEN yaml_pack_scalar(p3, d)
        ELSE IF d.type = "seq" THEN t_yaml_pack_seq(p3, d.cont)
        ELSE yaml_pack_obj(p3, d.cont),
        LAMBDA p4 : yaml_pack_pres_node_inline(p4, node)))))))))))))

(***************************************************************************)
(* Pack env public API                                                     *)
(***************************************************************************)

t_yaml_pack_env_set_presentation(p, pres) ==
    [p EXCEPT !.has_pres = TRUE, !.pres = pres]

yaml_pack_env_set_flags(p, flags) == [p EXCEPT !.flags = flags]

\* t_yaml_pack_sb: p.out is the buffer
t_yaml_pack_sb(p, data) == t_yaml_pack_data(p, data)

\* t_yaml_pack_file: the file is one more write of the disk
t_yaml_pack_file(p, filename, data) ==
    LET fullname == IF Len(p.outdirpath) > 0
                    THEN p.outdirpath \o <<"/">> \o filename ELSE filename
    IN Try(t_yaml_pack_data(
               t_yaml_pack_env_set_outdir(p, path_dirname(fullname)), data),
           LAMBDA p2 :
       LET contents == IF p2.state # "ON_NEWLINE" THEN p2.out \o <<"\n">>
                       ELSE p2.out
       IN [p2 EXCEPT !.out = contents,
                     !.written = Append(@, [path |-> fullname,
                                            contents |-> contents]),
                     !.disk = [f \in DOMAIN p2.disk \cup {fullname} |->
                                  IF f = fullname THEN contents
                                  ELSE p2.disk[f]]])

(***************************************************************************)
(* The calls under study.  A document is a sequence of lines taken from a  *)
(* small set; the root file of a call holds the document, the other files  *)
(* of the disk are fixed.                                                  *)
(***************************************************************************)

MaxLines == 3

\* the sequences of one to MaxLines elements of S
LineSeqs(S) == UNION {[1..n -> S] : n \in 1..MaxLines}

\* the text of a document: its lines, each ended by a newline
Doc(ls) == Concat([i \in 1..Len(ls) |-> ls[i] \o <<"\n">>])

RootPath == <<"/", "w", "/", "r", ".", "y", "m", "l">>
OutDir == <<"/", "o">>

\* YAML_PARSE_GEN_PRES_DATA
DefaultFlags == [gen_pres |-> TRUE, allow_unbound |-> FALSE]

\* an AST that no parse returns
NoTree == [type |-> "none"]
NoAux == [res |-> 0, tree |-> NoTree, out |-> <<>>, mutated |-> 0]

\* the state of a parsing context once t_yaml_parse is over: the choice made
\* for the undefined behaviours is not part of it
Outcome(e) == [e EXCEPT !.ub = "lost"]

\* the lines of the documents without includes
DocLines ==
    { <<"a", ":", " ", "1">>,
      <<"b", ":", " ", "\"", "1", "2", "\"">>,
      <<"-", " ", "x">>,
      <<"[", " ", "1", ",", " ", "c", " ", "]">>,
      <<"\t">>,
      <<"#", " ", "k">>,
      <<"d", ":", " ", "[", " ", "\"", "y", ",", "z", "\"", " ", "]", " ", "#", " ", "k">> }

TypeOK ==
    /\ step \in {"start", "parsed", "mutated", "packed", "done"}
    /\ env.res \in {0, -1, Crashed}
    /\ pack.res \in {0, -1, Crashed}

\* what all the specifications start from: the root file is on the disk,
\* the contexts are new
Start ==
    /\ fs = [f \in {input.root} \cup DOMAIN input.files |->
                IF f = input.root THEN Doc(input.lines) ELSE input.files[f]]
    /\ env = t_yaml_parse_new(input.flags, fs, "lost")
    /\ pack = t_yaml_pack_env_new(env, fs)
    /\ aux = NoAux
    /\ step = "start"

Init ==
    /\ input \in {[root |-> RootPath, lines |-> ls, flags |-> DefaultFlags,
                   files |-> <<>>] : ls \in LineSeqs(DocLines)}
    /\ Start

\* t_yaml_parse_new, t_yaml_parse_attach_file, t_yaml_parse on the root file
Parse ==
    /\ step = "start"
    /\ \E ub \in UBOutcomes :
           env' = Outcome(ParseFile(input.root, input.flags, fs, ub))
    /\ step' = "parsed"
    /\ UNCHANGED <<fs, input, pack, aux>>

\* t_yaml_pack_env_new, t_yaml_pack_env_set_presentation when asked for,
\* t_yaml_pack_sb: the AST is packed in one buffer, includes inlined
PackInline(e, use_pres) ==
    t_yaml_pack_sb(
        IF use_pres
        THEN t_yaml_pack_env_set_presentation(
                 t_yaml_pack_env_new(e, e.files),
                 t_yaml_data_get_presentation(e, e.ret))
        ELSE t_yaml_pack_env_new(e, e.files),
        e.ret)

Pack ==
    /\ step \in {"parsed", "mutated"}
    /\ env.res = 0
    /\ \E use_pres \in BOOLEAN : pack' = PackInline(env, use_pres)
    /\ step' = "packed"
    /\ UNCHANGED <<fs, input, env, aux>>

\* the packed document parsed in its turn, and packed again the same way
Reparsed(text, flags, files, ub, use_pres) ==
    With(ParseStream(text, flags, files, ub), LAMBDA r :
        [res |-> r.res,
         tree |-> IF r.res = 0 THEN Tree(r, r.ret) ELSE NoTree,
         out |-> IF r.res = 0 THEN PackInline(r, use_pres).out ELSE <<>>,
         mutated |-> 0])

Reparse ==
    /\ step = "packed"
    /\ pack.res = 0
    /\ pack.outdirpath = <<>>
    /\ \E ub \in UBOutcomes :
           aux' = [Reparsed(pack.out, input.flags, fs, ub, pack.has_pres)
                      EXCEPT !.mutated = aux.mutated]
    /\ step' = "done"
    /\ UNCHANGED <<fs, input, env, pack>>

Next == Parse \/ Pack \/ Reparse

Spec == Init /\ [][Next]_vars

(***************************************************************************)
(* Properties of Spec: a document is parsed, its AST packed in a buffer,   *)
(* and the buffer parsed and packed again                                  *)
(***************************************************************************)

\* C1: for every document that parses, the packing of its AST with the
\* presentation of the parse is a document that parses, that has the
\* values of the original one (the normalizations change no value), and
\* that is a fixed point: parsed and packed again, it gives the same bytes
PackParseRoundTrip ==
    (step = "done" /\ pack.has_pres)
        => /\ aux.res = 0
           /\ aux.tree = Tree(env, env.ret)
           /\ aux.out = pack.out

\* C3: a call to t_yaml_parse that fails returns -1 and leaves a message in
\* the buffer of the caller
ParseFailureHasMessage ==
    (step # "start" /\ env.res < 0) => (env.res = -1 /\ env.out_err.msg # "")

(***************************************************************************)
(* Includes with variable settings and overrides.  The root file holds an  *)
(* include and, under it, the settings of the include: the values of its   *)
(* variables and the fields of its override                                *)
(***************************************************************************)

MaxSettings == 2

\* the files that the documents include: an object, a sequence, an object
\* with a whole-value reference to v and two in-string references to w, an
\* include that sets v and leaves w open, a flow sequence that refers to v,
\* a string with references to v and to w, and an include that sets the w of
\* that string and leaves its v open
OverrideFiles ==
       (<<"/", "w", "/", "s", ".", "y", "m", "l">> :>
           <<"a", ":", " ", "1", "\n", "b", ":", "\n", " ", " ", "-", " ", "2", "\n", "c", ":", "\n", " ", " ", "d", ":", " ", "3", "\n">>)
    @@ (<<"/", "w", "/", "q", ".", "y", "m", "l">> :>
           <<"-", " ", "1", "\n">>)
    @@ (<<"/", "w", "/", "v", ".", "y", "m", "l">> :>
           <<"a", ":", " ", "$", "v", "\n", "b", ":", " ", "\"", "<", "$", "w", ">", "$", "w", "\"", "\n">>)
    @@ (<<"/", "w", "/", "n", ".", "y", "m", "l">> :>
           <<"!", "i", "n", "c", "l", "u", "d", "e", " ", "v", ".", "y", "m", "l", "\n", "$", "v", ":", " ", "3", "\n">>)
    @@ (<<"/", "w", "/", "f", ".", "y", "m", "l">> :>
           <<"[", " ", "$", "v", " ", "]", "\n">>)
    @@ (<<"/", "w", "/", "h", ".", "y", "m", "l">> :>
           <<"a", ":", " ", "\"", "$", "v", "-", "$", "w", "\"", "\n">>)
    @@ (<<"/", "w", "/", "j", ".", "y", "m", "l">> :>
           <<"!", "i", "n", "c", "l", "u", "d", "e", " ", "h", ".", "y", "m", "l", "\n", "$", "w", ":", " ", "4", "\n">>)

IncludeLines ==
    { <<"!", "i", "n", "c", "l", "u", "d", "e", " ", "s", ".", "y", "m", "l">>,
      <<"!", "i", "n", "c", "l", "u", "d", "e", " ", "q", ".", "y", "m", "l">>,
      <<"!", "i", "n", "c", "l", "u", "d", "e", " ", "v", ".", "y", "m", "l">>,
      <<"!", "i", "n", "c", "l", "u", "d", "e", " ", "n", ".", "y", "m", "l">>,
      <<"!", "i", "n", "c", "l", "u", "d", "e", " ", "f", ".", "y", "m", "l">>,
      <<"!", "i", "n", "c", "l", "u", "d", "e", " ", "h", ".", "y", "m", "l">>,
      <<"!", "i", "n", "c", "l", "u", "d", "e", " ", "j", ".", "y", "m", "l">> }

\* the lines under the include: fields of the override (one of them with a
\* key declared twice in a flow object) and values of variables
SettingLines ==
    { <<"a", ":", " ", "9">>,
      <<"b", ":", "\n", " ", " ", "-", " ", "8">>,
      <<"b", ":", " ", "9">>,
      <<"z", ":", " ", "5">>,
      <<"y", ":", " ", "6">>,
      <<"c", ":", "\n", " ", " ", "e", ":", " ", "4">>,
      <<"k", ":", " ", "{", " ", "a", ":", " ", "1", ",", " ", "a", ":", " ", "2", " ", "}">>,
      <<"$", "v", ":", " ", "5">>,
      <<"$", "v", ":", " ", "[", " ", "7", " ", "]">>,
      <<"$", "w", ":", " ", "~">> }

\* the sequences of at most MaxSettings settings
Settings == {<<>>} \cup UNION {[1..n -> SettingLines] : n \in 1..MaxSettings}

InitOverride ==
    /\ input \in {[root |-> RootPath, lines |-> <<h>> \o t,
                   flags |-> DefaultFlags, files |-> OverrideFiles] :
                      h \in IncludeLines, t \in Settings}
    /\ Start

NextOverride == Parse

SpecOverride == InitOverride /\ [][NextOverride]_vars

(***************************************************************************)
(* Properties of SpecOverride.  The documents are read again, line by      *)
(* line, without the parser: what they include, set and override           *)
(***************************************************************************)

IncludePrefix == <<"!", "i", "n", "c", "l", "u", "d", "e", " ">>

IsInclude(l) == lstr_startswith(l, IncludePrefix)

\* the file a line "!include <name>" of the root file names
IncludedPath(l) == Cwd \o <<"/">> \o SubSeq(l, Len(IncludePrefix) + 1, Len(l))

\* a line "$name: value" sets a variable, a line "key: value" is a field of
\* the override
IsSetting(l) == l # <<>> /\ l[1] = "$"
LineKey(l) == SubSeq(l, 1, IndexFrom(l, ":", 1) - 1)
SettingName(l) == SubSeq(l, 2, IndexFrom(l, ":", 1) - 1)
SettingText(l) == SubSeq(l, IndexFrom(l, ":", 1) + 2, Len(l))

\* the lines under the include of the root file
SettingsOf(ls) == SubSeq(ls, 2, Len(ls))

\* the lines are all variable settings, or all fields of one override: one
\* block mapping
OneMapping(ls) ==
    \/ \A i \in 1..Len(ls) : IsSetting(ls[i])
    \/ \A i \in 1..Len(ls) : ~IsSetting(ls[i])

\* the line whose value is a flow mapping that declares `a` twice
FlowTwice ==
    <<"k", ":", " ", "{", " ", "a", ":", " ", "1", ",", " ", "a", ":", " ", "2", " ", "}">>

\* two lines of the block mapping declare the same key
BlockTwice(ls) ==
    \E i, j \in 1..Len(ls) : i < j /\ LineKey(ls[i]) = LineKey(ls[j])

DeclaredTwice(ls) == BlockTwice(ls) \/ \E i \in 1..Len(ls) : ls[i] = FlowTwice

\* the keys of each mapping of an AST are pairwise distinct
RECURSIVE DistinctKeys(_)
DistinctKeys(t) ==
    \/ t.type \in {"scalar", "none"}
    \/ /\ t.type \in {"seq", "obj"}
       /\ \A i \in 1..Len(t.items) : DistinctKeys(t.items[i].val)
       /\ t.type = "obj" =>
              \A i, j \in 1..Len(t.items) :
                  i # j => t.items[i].key # t.items[j].key

\* C2: the mappings of the AST of a parse that succeeds, with its includes,
\* overrides and variable values, have pairwise distinct keys; a block or a
\* flow mapping that declares a key twice makes the parse fail with "invalid
\* key", "key is already declared in the object"
KeysAreUnique ==
    step = "parsed" =>
        /\ env.res = 0 => DistinctKeys(Tree(env, env.ret))
        /\ (OneMapping(SettingsOf(input.lines))
               /\ DeclaredTwice(SettingsOf(input.lines)))
              => /\ env.res = -1
                 /\ env.out_err.pfx = "invalid key"
                 /\ env.out_err.msg = "key is already declared in the object"

\* an override whose block mapping holds one key on two lines has been
\* refused
KeysAreUniqueWitness ==
    /\ step = "parsed"
    /\ BlockTwice(SettingsOf(input.lines))
    /\ ~IsSetting(input.lines[2])
    /\ env.res = -1
    /\ env.out_err.msg = "key is already declared in the object"

\* the lines of a text, without their newlines
RECURSIVE SplitLines(_)
SplitLines(text) ==
    LET nl == IndexFrom(text, "\n", 1)
    IN IF text = <<>> THEN <<>>
       ELSE IF nl = 0 THEN <<text>>
       ELSE <<SubSeq(text, 1, nl - 1)>>
                \o SplitLines(SubSeq(text, nl + 1, Len(text)))

\* the names that follow a '$' in s
NamesIn(s) ==
    {SubSeq(s, i + 1, SpanAlnum(s, i + 1) - 1) :
        i \in {k \in 1..Len(s) : s[k] = "$"}} \ {<<>>}

\* the names the settings among the lines give a value to
NamesSet(ls) == {SettingName(ls[i]) : i \in {k \in 1..Len(ls) : IsSetting(ls[k])}}

\* the variables a document leaves open: those of the file it includes that
\* the lines under the include do not set, and those of its own values
RECURSIVE OpenNames(_)
OpenNames(ls) ==
    IF ls # <<>> /\ IsInclude(ls[1])
    THEN (OpenNames(SplitLines(OverrideFiles[IncludedPath(ls[1])]))
              \ NamesSet(SettingsOf(ls)))
         \cup UNION {NamesIn(IF IsSetting(ls[i]) THEN SettingText(ls[i])
                             ELSE ls[i]) : i \in 2..Len(ls)}
    ELSE UNION {NamesIn(ls[i]) : i \in 1..Len(ls)}

\* the value a line holds: the element of a one-element flow sequence, the
\* text after the key, or the line itself
LineValue(l) ==
    IF l # <<>> /\ l[1] = "[" THEN SubSeq(l, 3, Len(l) - 2)
    ELSE IF IndexFrom(l, ":", 1) # 0 THEN SettingText(l)
    ELSE l

\* the names a line refers to inside a longer string: all its names, unless
\* its value is one reference and nothing else
StringRefs(l) ==
    IF LineValue(l) # <<>> /\ NamesIn(LineValue(l)) = {Tail(LineValue(l))}
    THEN {}
    ELSE NamesIn(LineValue(l))

\* the open variables of a document that a string of it refers to
RECURSIVE StringNames(_)
StringNames(ls) ==
    IF ls # <<>> /\ IsInclude(ls[1])
    THEN (StringNames(SplitLines(OverrideFiles[IncludedPath(ls[1])]))
              \ NamesSet(SettingsOf(ls)))
         \cup UNION {StringRefs(ls[i]) : i \in 2..Len(ls)}
    ELSE UNION {StringRefs(ls[i]) : i \in 1..Len(ls)}

\* a setting whose value is a scalar
ScalarSetting(l) == SettingText(l) # <<>> /\ SettingText(l)[1] \notin {"[", "{"}

\* the lines under the include set variables that the included file leaves
\* open, each one once, with a scalar when a string refers to the variable
OnlyBindings(ls) ==
    /\ IsInclude(ls[1])
    /\ \A i \in 2..Len(ls) :
          /\ IsSetting(ls[i])
          /\ SettingName(ls[i]) \in OpenNames(<<ls[1]>>)
          /\ ScalarSetting(ls[i])
                \/ SettingName(ls[i]) \notin StringNames(<<ls[1]>>)
          /\ \A j \in 2..Len(ls) :
                 i # j => SettingName(ls[i]) # SettingName(ls[j])

\* C6: the root context is created without YAML_PARSE_ALLOW_UNBOUND_VARIABLES:
\* its parse succeeds only when no variable is left open once the including
\* levels have set theirs, and fails otherwise with "there are unbound
\* variables" and each open name once; a subfile with open variables is
\* accepted, the root alone decides
UnboundDecidedAtRoot ==
    step = "parsed" =>
        /\ env.res = 0 =>
               (env.variables = <<>> /\ OpenNames(input.lines) = {})
        /\ (OnlyBindings(input.lines) /\ OpenNames(input.lines) # {})
              => /\ env.res = -1
                 /\ env.out_err.msg = "there are unbound variables"
                 /\ {env.out_err.names[i] :
                        i \in 1..Len(env.out_err.names)}
                        = OpenNames(input.lines)
                 /\ Cardinality(OpenNames(input.lines))
                        = Len(env.out_err.names)
        /\ (OnlyBindings(input.lines) /\ OpenNames(input.lines) = {})
              => env.out_err.msg # "there are unbound variables"

\* the root file sets one variable of the file it includes and leaves
\* another one open, in a subfile that was accepted with both open: the
\* parse fails at the root
UnboundDecidedAtRootWitness ==
    /\ step = "parsed"
    /\ Len(input.lines) = 2
    /\ OnlyBindings(input.lines)
    /\ Cardinality(OpenNames(<<input.lines[1]>>)) = 2
    /\ env.res = -1
    /\ env.out_err.msg = "there are unbound variables"
    /\ Len(env.out_err.names) = 1

\* the parsing of a text on its own, variables allowed
Standalone(text) ==
    ParseStream(text, [gen_pres |-> FALSE, allow_unbound |-> TRUE], <<>>,
                "lost")

\* the AST of the file that the first line of the document includes, parsed
\* on its own
IncludedTree(ls) ==
    LET r == ParseFile(IncludedPath(ls[1]), SubfileFlags, OverrideFiles,
                       "lost")
    IN Tree(r, r.ret)

\* position of the item of key `key`, 0 without one
KeyPos(items, key) ==
    IF \E i \in 1..Len(items) : items[i].key = key
    THEN CHOOSE i \in 1..Len(items) : items[i].key = key
    ELSE 0

\* merge(O, T) of two ASTs of the same kinds: a scalar is replaced, the
\* elements of a sequence are appended, the fields of an object are merged
\* in place when T has their key and appended after those of T otherwise
RECURSIVE MergeTree(_, _)
MergeTree(o, t) ==
    IF t.type = "scalar" THEN o
    ELSE IF t.type = "seq" THEN [t EXCEPT !.items = @ \o o.items]
    ELSE [t EXCEPT !.items =
             [i \in 1..Len(t.items) |->
                 IF KeyPos(o.items, t.items[i].key) = 0 THEN t.items[i]
                 ELSE [key |-> t.items[i].key,
                       val |-> MergeTree(
                                o.items[KeyPos(o.items, t.items[i].key)].val,
                                t.items[i].val)]]
             \o SelectSeq(o.items,
                          LAMBDA it : KeyPos(t.items, it.key) = 0)]

\* the nodes of the override (slot oslot of the heap of r) whose kind is
\* not the kind of the node of T they are matched with, in the order of
\* the override
RECURSIVE Mismatches(_, _, _)
Mismatches(r, oslot, t) ==
    LET o == r.mem[oslot]
        fields == IF o.type = "obj" THEN r.conts[o.cont].items ELSE <<>>
    IN IF o.type # t.type THEN <<o.span>>
       ELSE IF o.type # "obj" THEN <<>>
       ELSE Concat([i \in 1..Len(fields) |->
                IF KeyPos(t.items, fields[i].key) = 0 THEN <<>>
                ELSE Mismatches(r, fields[i].slot,
                         t.items[KeyPos(t.items, fields[i].key)].val)])

\* the lines under the include are the fields of an override that parses,
\* and the included file has no variable
IsOverride(ls) ==
    /\ Len(ls) > 1
    /\ IsInclude(ls[1])
    /\ OpenNames(<<ls[1]>>) = {}
    /\ \A i \in 2..Len(ls) : ~IsSetting(ls[i])
    /\ Standalone(Doc(SettingsOf(ls))).res = 0

\* C7: the override O under an include of data T.  When the kind of a node
\* of O differs from the kind of the node of T it is matched with (the
\* roots, the values of a same key), the parse fails with "cannot change
\* types of data in override" at the span of that node of O; otherwise the
\* AST is merge(O, T): scalars replaced, elements appended to sequences,
\* fields merged in place or appended after those of T in the order of O
OverrideMerge ==
    (step = "parsed" /\ IsOverride(input.lines)) =>
        LET r == Standalone(Doc(SettingsOf(input.lines)))
            t == IncludedTree(input.lines)
            bad == Mismatches(r, r.ret, t)
            shift == Len(input.lines[1]) + 1
        IN IF bad = <<>>
           THEN /\ env.res = 0
                /\ Tree(env, env.ret) = MergeTree(Tree(r, r.ret), t)
           ELSE /\ env.res = -1
                /\ env.out_err.pfx = "cannot change types of data in override"
                /\ env.out_err.s = bad[1].s + shift
                /\ env.out_err.e = bad[1].e + shift

\* an override has replaced a scalar, added a field after those of the
\* included object, and the merged AST is returned
OverrideMergeWitness ==
    /\ step = "parsed"
    /\ IsOverride(input.lines)
    /\ env.res = 0
    /\ LET t == IncludedTree(input.lines)
           m == Tree(env, env.ret)
       IN /\ t.type = "obj"
          /\ Len(m.items) > Len(t.items)
          /\ \E i \in 1..Len(t.items) :
                 /\ t.items[i].val.type = "scalar"
                 /\ m.items[i].key = t.items[i].key
                 /\ m.items[i].val # t.items[i].val

\* s with every reference "$name" replaced by txt, the other characters
\* unchanged
RECURSIVE ReplaceAll(_, _, _)
ReplaceAll(s, name, txt) ==
    IF s = <<>> THEN <<>>
    ELSE IF s[1] = "$" /\ SubSeq(s, 2, SpanAlnum(s, 2) - 1) = name
    THEN txt \o ReplaceAll(SubSeq(s, SpanAlnum(s, 2), Len(s)), name, txt)
    ELSE <<s[1]>> \o ReplaceAll(Tail(s), name, txt)

\* a string scalar of the AST refers to `name` inside a longer string
RECURSIVE InStringRefs(_, _)
InStringRefs(t, name) ==
    IF t.type = "scalar"
    THEN t.stype = "string" /\ t.s # <<"$">> \o name /\ name \in NamesIn(t.s)
    ELSE \E i \in 1..Len(t.items) : InStringRefs(t.items[i].val, name)

\* the AST t once `name` is bound: val in the place of the scalars "$name",
\* txt in the place of "$name" inside the other strings
RECURSIVE Subst(_, _, _, _)
Subst(t, name, val, txt) ==
    IF t.type = "scalar"
    THEN IF t.stype # "string" THEN t
         ELSE IF t.s = <<"$">> \o name THEN val
         ELSE [t EXCEPT !.s = ReplaceAll(@, name, txt)]
    ELSE [t EXCEPT !.items =
             [i \in 1..Len(t.items) |->
                 [key |-> t.items[i].key,
                  val |-> Subst(t.items[i].val, name, val, txt)]]]

\* the value a setting gives: its AST, and its text in a string (the string
\* itself, the source text of another scalar)
SettingTree(l) ==
    LET r == Standalone(SettingText(l)) IN Tree(r, r.ret)
SettingString(l) ==
    IF SettingTree(l).type = "scalar" /\ SettingTree(l).stype = "string"
    THEN SettingTree(l).s ELSE SettingText(l)

\* the settings ls[i..] applied to t
RECURSIVE SubstAll(_, _, _)
SubstAll(t, ls, i) ==
    IF i > Len(ls) THEN t
    ELSE SubstAll(Subst(t, SettingName(ls[i]), SettingTree(ls[i]),
                        SettingString(ls[i])),
                  ls, i + 1)

\* the AST of a document whose variables are bound as its lines say
RECURSIVE ExpectedTree(_)
ExpectedTree(ls) ==
    IF IsInclude(ls[1])
    THEN SubstAll(ExpectedTree(SplitLines(OverrideFiles[IncludedPath(ls[1])])),
                  ls, 2)
    ELSE LET r == Standalone(Doc(ls)) IN Tree(r, r.ret)

\* the lines under the include give a value to every variable of the
\* included file, a scalar one to those that strings refer to
IsBinding(ls) ==
    /\ Len(ls) > 1
    /\ OnlyBindings(ls)
    /\ OpenNames(ls) = {}
    /\ \A i \in 2..Len(ls) :
          \/ SettingTree(ls[i]).type = "scalar"
          \/ ~InStringRefs(
                  ExpectedTree(SplitLines(OverrideFiles[IncludedPath(ls[1])])),
                  SettingName(ls[i]))

\* C10: once `$x` is bound, every scalar that is a reference to x is the
\* bound data, of any kind, and every other string has its occurrences of
\* `$x` replaced by the text of the bound scalar, nothing else changed
VariablesReplaced ==
    (step = "parsed" /\ IsBinding(input.lines)) =>
        /\ env.res = 0
        /\ Tree(env, env.ret) = ExpectedTree(input.lines)

(***************************************************************************)
(* Includes and paths.  The root file /w/r.yml is a sequence of includes;  *)
(* the files of the disk include the root file, themselves, files of       *)
(* their directory and files of the directory above                        *)
(***************************************************************************)

MaxIncludes == 2

\* the files of the disk: l.yml includes the root file, m.yml itself, q.yml
\* the root file from the directory below, u.yml the same file twice
IncludeFiles ==
       (<<"/", "w", "/", "s", ".", "y", "m", "l">> :>
           <<"1", "\n">>)
    @@ (<<"/", "w", "/", "l", ".", "y", "m", "l">> :>
           <<"!", "i", "n", "c", "l", "u", "d", "e", " ", "r", ".", "y", "m", "l", "\n">>)
    @@ (<<"/", "w", "/", "m", ".", "y", "m", "l">> :>
           <<"!", "i", "n", "c", "l", "u", "d", "e", " ", ".", "/", "m", ".", "y", "m", "l", "\n">>)
    @@ (<<"/", "w", "/", "d", "/", "q", ".", "y", "m", "l">> :>
           <<"!", "i", "n", "c", "l", "u", "d", "e", " ", ".", ".", "/", "r", ".", "y", "m", "l", "\n">>)
    @@ (<<"/", "w", "/", "d", "/", "t", ".", "y", "m", "l">> :>
           <<"2", "\n">>)
    @@ (<<"/", "w", "/", "d", "/", "u", ".", "y", "m", "l">> :>
           <<"-", " ", "!", "i", "n", "c", "l", "u", "d", "e", " ", "t", ".", "y", "m", "l", "\n", "-", " ", "!", "i", "n", "c", "l", "u", "d", "e", " ", "t", ".", "y", "m", "l", "\n">>)
    @@ (<<"/", "w", "/", ".", ".", "s", ".", "y", "m", "l">> :>
           <<"3", "\n">>)

\* the elements of the root file: an include each
IncludeItems ==
    { <<"-", " ", "!", "i", "n", "c", "l", "u", "d", "e", " ", "s", ".", "y", "m", "l">>,
      <<"-", " ", "!", "i", "n", "c", "l", "u", "d", "e", " ", ".", "/", "r", ".", "y", "m", "l">>,
      <<"-", " ", "!", "i", "n", "c", "l", "u", "d", "e", " ", "l", ".", "y", "m", "l">>,
      <<"-", " ", "!", "i", "n", "c", "l", "u", "d", "e", " ", "m", ".", "y", "m", "l">>,
      <<"-", " ", "!", "i", "n", "c", "l", "u", "d", "e", " ", "d", "/", "q", ".", "y", "m", "l">>,
      <<"-", " ", "!", "i", "n", "c", "l", "u", "d", "e", " ", "d", "/", "u", ".", "y", "m", "l">>,
      <<"-", " ", "!", "i", "n", "c", "l", "u", "d", "e", " ", "d", "/", ".", ".", "/", "s", ".", "y", "m", "l">>,
      <<"-", " ", "!", "i", "n", "c", "l", "u", "d", "e", " ", ".", ".", "/", "w", "/", "r", ".", "y", "m", "l">>,
      <<"-", " ", "!", "i", "n", "c", "l", "u", "d", "e", " ", ".", ".", "/", "x", ".", "y", "m", "l">>,
      <<"-", " ", "!", "i", "n", "c", "l", "u", "d", "e", " ", ".", ".", "s", ".", "y", "m", "l">>,
      <<"-", " ", "!", "i", "n", "c", "l", "u", "d", "e", " ", "x", ".", "y", "m", "l">> }

InitInclude ==
    /\ input \in {[root |-> RootPath, lines |-> ls, flags |-> DefaultFlags,
                   files |-> IncludeFiles] :
                      ls \in UNION {[1..n -> IncludeItems] :
                                       n \in 1..MaxIncludes}}
    /\ Start

NextInclude == Parse

SpecInclude == InitInclude /\ [][NextInclude]_vars

(***************************************************************************)
(* Properties of SpecInclude.  The includes of a document are followed     *)
(* again on the components of the paths, without the parser                *)
(***************************************************************************)

\* the include of a line, "- !include <path>" or "!include <path>"
StripDash(l) ==
    IF lstr_startswith(l, <<"-", " ">>) THEN SubSeq(l, 3, Len(l)) ELSE l
HasInclude(l) == IsInclude(StripDash(l))
IncludeArg(l) ==
    SubSeq(StripDash(l), Len(IncludePrefix) + 1, Len(StripDash(l)))

\* the components of an absolute path, "." dropped and ".." resolved
RECURSIVE Normalize(_, _)
Normalize(comps, acc) ==
    IF comps = <<>> THEN acc
    ELSE IF Head(comps) = <<".">> THEN Normalize(Tail(comps), acc)
    ELSE IF Head(comps) = <<".", ".">>
    THEN Normalize(Tail(comps), SubSeq(acc, 1, Len(acc) - 1))
    ELSE Normalize(Tail(comps), Append(acc, Head(comps)))

\* the file that the path arg names in a file of directory dir
Target(dir, arg) ==
    Normalize(IF IsAbsolute(arg) THEN SplitPath(arg, 1, <<>>)
              ELSE dir \o SplitPath(arg, 1, <<>>), <<>>)

\* the file lies in the directory, or below
Inside(dir, file) ==
    Len(file) > Len(dir) /\ SubSeq(file, 1, Len(dir)) = dir

FileOf(comps) == <<"/">> \o JoinPath(comps)

\* the containment checks: none, the one on paths (the target lies in the
\* directory), the one on texts (moreover, the path from the directory to
\* the target does not start with the characters "..")
Escapes(dir, target, contained) ==
    /\ contained # "no"
    /\ \/ ~Inside(dir, target)
       \/ /\ contained = "text"
          /\ lstr_startswith(target[Len(dir) + 1], <<".", ".">>)

\* what stops the reading of the lines ls[i..] of the file `file`, included
\* by the files of chain: the first include that the containment check
\* refuses ("escape"), that names no file ("missing"), or that names its own
\* file or a file of the chain ("loop"); "ok" when nothing does
RECURSIVE Verdict(_, _, _, _, _, _)
Verdict(files, file, ls, i, chain, contained) ==
    LET dir == SubSeq(file, 1, Len(file) - 1)
        target == Target(dir, IncludeArg(ls[i]))
        sub == Verdict(files, target, SplitLines(files[FileOf(target)]), 1,
                       chain \cup {file}, contained)
    IN IF i > Len(ls) THEN "ok"
       ELSE IF ~HasInclude(ls[i])
       THEN Verdict(files, file, ls, i + 1, chain, contained)
       ELSE IF Escapes(dir, target, contained) THEN "escape"
       ELSE IF FileOf(target) \notin DOMAIN files THEN "missing"
       ELSE IF target \in chain \cup {file} THEN "loop"
       ELSE IF sub # "ok" THEN sub
       ELSE Verdict(files, file, ls, i + 1, chain, contained)

RootVerdict(contained) ==
    Verdict(fs, SplitPath(input.root, 1, <<>>), input.lines, 1, {}, contained)

\* a file is included twice
SameTwice(ls) ==
    \E i, j \in 1..Len(ls) : i < j /\ HasInclude(ls[i]) /\ ls[i] = ls[j]

ContainMsg ==
    "cannot include subfile: only includes contained in the directory of the including file are allowed"

\* C4, as stated: an include whose target is its own file or a file of its
\* include chain, whatever the spelling of the path, is rejected with
\* "invalid include", "inclusion loop detected"
LoopAlwaysDetected ==
    (step = "parsed" /\ RootVerdict("no") = "loop")
        => /\ env.res = -1
           /\ env.out_err.pfx = "invalid include"
           /\ env.out_err.msg = "inclusion loop detected"

\* C4, amended: an include that passes the containment check (the text of
\* its path from the directory of its file does not start with "..") and
\* whose target is that file or a file of its include chain is rejected with
\* "invalid include", "inclusion loop detected"; a cycle closed through a
\* path that the containment check refuses is rejected by that check, with
\* its message; no other include is rejected as a loop, the second include
\* of a same file from a sibling position in particular
LoopDetected ==
    step = "parsed" =>
        /\ RootVerdict("text") = "loop"
              => /\ env.res = -1
                 /\ env.out_err.pfx = "invalid include"
                 /\ env.out_err.msg = "inclusion loop detected"
        /\ (RootVerdict("no") = "loop" /\ RootVerdict("text") = "escape")
              => /\ env.res = -1
                 /\ env.out_err.pfx = "invalid include"
                 /\ env.out_err.msg = ContainMsg
        /\ env.out_err.msg = "inclusion loop detected"
              => RootVerdict("text") = "loop"

\* a file included twice by the root file, and twice by one of its
\* subfiles, has been accepted
LoopDetectedWitness ==
    /\ step = "parsed"
    /\ env.res = 0
    /\ SameTwice(input.lines)
    /\ \E i \in 1..Len(input.lines) :
           SameTwice(SplitLines(
               fs[FileOf(Target(<<<<"w">>>>, IncludeArg(input.lines[i])))]))

\* C5: an include whose simplified path leaves the directory of its file is
\* rejected with "invalid include" by the containment check before any file
\* is read, and the check rejects no include that stays in that directory
IncludesContained ==
    step = "parsed" =>
        /\ RootVerdict("path") = "escape"
              => /\ env.res = -1
                 /\ env.out_err.pfx = "invalid include"
                 /\ env.out_err.msg = ContainMsg
        /\ env.out_err.msg = ContainMsg => RootVerdict("path") = "escape"

(***************************************************************************)
(* Packing with subfiles.  The AST of a document is changed by its owner,  *)
(* scalar by scalar, then packed with an output directory: the includes    *)
(* are written as files of that directory                                  *)
(***************************************************************************)

MaxMutations == 2

\* the slots of the scalars of an AST
RECURSIVE ScalarSlots(_, _)
ScalarSlots(e, slot) ==
    IF e.mem[slot].type = "scalar" THEN {slot}
    ELSE IF e.mem[slot].type \in {"seq", "obj"}
    THEN UNION {ScalarSlots(e, e.conts[e.mem[slot].cont].items[i].slot) :
                   i \in 1..Len(e.conts[e.mem[slot].cont].items)}
    ELSE {}

\* the scalars the owner of the AST can have after an assignment to
\* data.scalar.u (an unsigned integer) or to data.scalar.s (a string)
NewScalars(d) ==
    IF d.stype = "uint" THEN {[d EXCEPT !.n = 7]}
    ELSE IF d.stype = "string"
    THEN {[d EXCEPT !.s = <<"m">>], [d EXCEPT !.s = <<"n">>]}
    ELSE {}

\* one assignment to the scalar of an AST returned by t_yaml_parse
Mutate ==
    /\ step \in {"parsed", "mutated"}
    /\ env.res = 0
    /\ aux.mutated < MaxMutations
    /\ \E slot \in ScalarSlots(env, env.ret) :
           \E d \in NewScalars(env.mem[slot]) :
               env' = [env EXCEPT !.mem[slot] = d]
    /\ aux' = [aux EXCEPT !.mutated = @ + 1]
    /\ step' = "mutated"
    /\ UNCHANGED <<fs, input, pack>>

\* t_yaml_pack_env_new, t_yaml_pack_env_set_outdir,
\* t_yaml_pack_env_set_presentation and t_yaml_pack_sb: the root document is
\* packed in a buffer, its includes in files of OutDir
PackDir ==
    /\ step \in {"parsed", "mutated"}
    /\ env.res = 0
    /\ pack' = t_yaml_pack_sb(
                   t_yaml_pack_env_set_presentation(
                       t_yaml_pack_env_set_outdir(
                           t_yaml_pack_env_new(env, fs), OutDir),
                       t_yaml_data_get_presentation(env, env.ret)),
                   env.ret)
    /\ step' = "packed"
    /\ UNCHANGED <<fs, input, env, aux>>

NextDir == Parse \/ Mutate \/ PackDir

\* the files that the documents include: a block sequence, an empty
\* sequence, a flow object
DirFiles ==
       (<<"/", "w", "/", "s", ".", "y", "m", "l">> :>
           <<"a", ":", " ", "1", "\n", "b", ":", "\n", " ", " ", "-", " ", "2", "\n", "c", ":", "\n", " ", " ", "d", ":", " ", "3", "\n">>)
    @@ (<<"/", "w", "/", "e", ".", "y", "m", "l">> :>
           <<"a", ":", " ", "1", "\n", "b", ":", " ", "[", "]", "\n">>)
    @@ (<<"/", "w", "/", "g", ".", "y", "m", "l">> :>
           <<"a", ":", " ", "1", "\n", "c", ":", " ", "{", " ", "d", ":", " ", "3", " ", "}", "\n">>)

DirIncludes ==
    { <<"!", "i", "n", "c", "l", "u", "d", "e", " ", "s", ".", "y", "m", "l">>,
      <<"!", "i", "n", "c", "l", "u", "d", "e", " ", "e", ".", "y", "m", "l">>,
      <<"!", "i", "n", "c", "l", "u", "d", "e", " ", "g", ".", "y", "m", "l">> }

\* the fields of the overrides
DirOverrides ==
    { <<"a", ":", " ", "9">>,
      <<"b", ":", "\n", " ", " ", "-", " ", "8">>,
      <<"z", ":", " ", "5">>,
      <<"c", ":", "\n", " ", " ", "d", ":", " ", "4">>,
      <<"c", ":", "\n", " ", " ", "e", ":", " ", "4">> }

InitDir ==
    /\ input \in {[root |-> RootPath, lines |-> <<h>> \o t,
                   flags |-> DefaultFlags, files |-> DirFiles] :
                      h \in DirIncludes,
                      t \in {<<>>} \cup UNION {[1..n -> DirOverrides] :
                                                 n \in 1..MaxSettings}}
    /\ Start

SpecDir == InitDir /\ [][NextDir]_vars

(***************************************************************************)
(* Properties of SpecDir                                                   *)
(***************************************************************************)

\* the AST returned by the parse of the root file, before any assignment
ParsedTree ==
    LET r == ParseFile(input.root, input.flags, fs, "lost")
    IN Tree(r, r.ret)

\* the AST of the override of the root file, parsed on its own
OverrideTree ==
    LET r == Standalone(Doc(SettingsOf(input.lines))) IN Tree(r, r.ret)

\* the ASTs c and g differ only by scalars that the override o has replaced
\* or added: g is the AST of the parse, where the fields of o are merged in
\* the objects and its elements appended to the sequences
RECURSIVE SameOutside(_, _, _)
SameOutside(c, g, o) ==
    IF o.type = "scalar" THEN TRUE
    ELSE IF o.type = "seq"
    THEN SubSeq(c.items, 1, Len(g.items) - Len(o.items))
             = SubSeq(g.items, 1, Len(g.items) - Len(o.items))
    ELSE \A i \in 1..Len(g.items) :
             IF KeyPos(o.items, g.items[i].key) = 0
             THEN c.items[i] = g.items[i]
             ELSE SameOutside(c.items[i].val, g.items[i].val,
                      o.items[KeyPos(o.items, g.items[i].key)].val)

\* the root document as packed, and the subfiles written, read again
PackedTree ==
    LET disk == [f \in DOMAIN pack.disk \cup {OutDir \o <<"/", "r">>} |->
                    IF f = OutDir \o <<"/", "r">> THEN pack.out
                    ELSE pack.disk[f]]
        r == ParseFile(OutDir \o <<"/", "r">>, input.flags, disk, "lost")
    IN IF r.res = 0 THEN Tree(r, r.ret) ELSE NoTree

\* the AST of a file of the disk
FileTree(files, file) ==
    LET r == ParseFile(file, SubfileFlags, files, "lost")
    IN IF r.res = 0 THEN Tree(r, r.ret) ELSE NoTree

\* C8: an include with an override, packed with an output directory after
\* assignments to scalars that the override replaced or added: the subfile
\* written holds the data of the included file, as it was parsed, and the
\* root document holds the include and an override with the values of the
\* AST, so that reading it again gives the AST that was packed
OverrideKeepsSubfile ==
    (/\ step = "packed"
     /\ Len(input.lines) > 1
     /\ SameOutside(Tree(env, env.ret), ParsedTree, OverrideTree))
        => /\ pack.res = 0
           /\ Len(pack.written) = 1
           /\ pack.written[1].path
                  = OutDir \o <<"/">> \o IncludeArg(input.lines[1])
           /\ FileTree(pack.disk, pack.written[1].path)
                  = FileTree(fs, IncludedPath(input.lines[1]))
           /\ PackedTree = Tree(env, env.ret)

(***************************************************************************)
(* Subfiles with the same path.  The root file is a sequence of raw        *)
(* includes; the strings of its AST are changed, then the AST is packed    *)
(* with an output directory                                                *)
(***************************************************************************)

MaxRaw == 3

\* the files of the disk
RawFiles ==
       (<<"/", "w", "/", "x", ".", "t", "x", "t">> :>
           <<"p", "\n">>)
    @@ (<<"/", "w", "/", "y", ".", "t", "x", "t">> :>
           <<"q", "\n">>)
    @@ (<<"/", "w", "/", "x", "~", "1", ".", "t", "x", "t">> :>
           <<"r", "\n">>)

\* the elements of the root file: a raw include each
RawItems ==
    { <<"-", " ", "!", "i", "n", "c", "l", "u", "d", "e", "r", "a", "w", " ", "x", ".", "t", "x", "t">>,
      <<"-", " ", "!", "i", "n", "c", "l", "u", "d", "e", "r", "a", "w", " ", ".", "/", "x", ".", "t", "x", "t">>,
      <<"-", " ", "!", "i", "n", "c", "l", "u", "d", "e", "r", "a", "w", " ", "y", ".", "t", "x", "t">>,
      <<"-", " ", "!", "i", "n", "c", "l", "u", "d", "e", "r", "a", "w", " ", "x", "~", "1", ".", "t", "x", "t">> }

InitDedup ==
    /\ input \in {[root |-> RootPath, lines |-> ls, flags |-> DefaultFlags,
                   files |-> RawFiles] :
                      ls \in UNION {[1..n -> RawItems] : n \in 1..MaxRaw}}
    /\ Start

NextDedup == Parse \/ Mutate \/ PackDir

SpecDedup == InitDedup /\ [][NextDedup]_vars

(***************************************************************************)
(* Properties of SpecDedup.  The paths of the subfiles are computed again  *)
(* from the requests of the includes, in order: a path and contents each   *)
(***************************************************************************)

\* the path of the i-th include of the root file, simplified, and the
\* contents of its subfile: the string of the AST
RequestPath(i) ==
    JoinPath(Normalize(
        SplitPath(SubSeq(input.lines[i],
                         Len(<<"-", " ", "!">> \o Str_includeraw) + 2,
                         Len(input.lines[i])),
                  1, <<>>),
        <<>>))
RequestContents(i) ==
    env.mem[env.conts[env.mem[env.ret].cont].items[i].slot].s

\* base~n.ext for the path base.ext
Numbered(path, n) ==
    LET dot == CHOOSE k \in 1..Len(path) :
                   /\ path[k] = "."
                   /\ \A j \in (k + 1)..Len(path) : path[j] # "."
    IN SubSeq(path, 1, dot - 1) \o <<"~", DigitOf(n)>>
           \o SubSeq(path, dot, Len(path))

\* the contents that the map gives to a path, <<>> for a path it does not
\* hold; the map is the sequence of its entries, in the order of creation
Mapped(map, path) ==
    {map[k].contents : k \in {j \in 1..Len(map) : map[j].path = path}}

\* the first of path, path~1, path~2, ... (from the n-th on) that the map
\* does not hold, or holds with these contents
RECURSIVE FirstFit(_, _, _, _)
FirstFit(map, path, contents, n) ==
    LET candidate == IF n = 0 THEN path ELSE Numbered(path, n)
    IN IF Mapped(map, candidate) \subseteq {contents} THEN candidate
       ELSE FirstFit(map, path, contents, n + 1)

\* the map once the requests 1..i are served
RECURSIVE MapAfter(_)
MapAfter(i) ==
    IF i = 0 THEN <<>>
    ELSE LET map == MapAfter(i - 1)
             path == FirstFit(map, RequestPath(i), RequestContents(i), 0)
         IN IF Mapped(map, path) = {} 
            THEN Append(map, [path |-> path,
                              contents |-> RequestContents(i)])
            ELSE map

\* the path given to the i-th request
PathGiven(i) ==
    FirstFit(MapAfter(i - 1), RequestPath(i), RequestContents(i), 0)

\* C9: in one call of the packer, the map of the subfiles holds each path
\* once, with one checksum, and each path is written once: a request for an
\* unused path creates it, a request for a path mapped to its checksum
\* reuses it and writes nothing, a request for a path mapped to another
\* checksum gets the first of base~1.ext, base~2.ext, ... that is unused or
\* mapped to its checksum
SubfilesDeduplicated ==
    step = "packed" =>
        LET n == Len(input.lines)
            map == MapAfter(n)
        IN /\ pack.res = 0
           /\ SplitLines(pack.out)
                  = [i \in 1..n |->
                        <<"-", " ", "!">> \o Str_includeraw \o <<" ">>
                            \o PathGiven(i)]
           /\ pack.subfiles
                  = [k \in 1..Len(map) |->
                        [path |-> OutDir \o <<"/">> \o map[k].path,
                         checksum |-> sha2_hash_64(map[k].contents)]]
           /\ pack.written
                  = [k \in 1..Len(map) |->
                        [path |-> OutDir \o <<"/">> \o map[k].path,
                         contents |-> map[k].contents]]
           /\ \A j, k \in 1..Len(pack.written) :
                  j # k => pack.written[j].path # pack.written[k].path

\* three includes of one path with three contents have been packed: the
\* third one is written in base~2.ext
SubfilesDeduplicatedWitness ==
    /\ step = "packed"
    /\ pack.res = 0
    /\ \E i \in 1..Len(input.lines) :
           PathGiven(i) = Numbered(RequestPath(i), 2)

(***************************************************************************)
(* Variables along a chain of includes (SpecOverride)                      *)
(***************************************************************************)

\* the lines under the include are settings of variables, each name once,
\* with a scalar when a string refers to the variable
AllBindings(ls) ==
    /\ Len(ls) > 1
    /\ IsInclude(ls[1])
    /\ \A i \in 2..Len(ls) :
          /\ IsSetting(ls[i])
          /\ ScalarSetting(ls[i])
                \/ SettingName(ls[i]) \notin StringNames(<<ls[1]>>)
          /\ \A j \in 2..Len(ls) :
                 i # j => SettingName(ls[i]) # SettingName(ls[j])

\* one of the settings names a variable that the included file does not
\* leave open: it has no reference to it, or a level below has set it
SetsClosedName(ls) ==
    \E i \in 2..Len(ls) : SettingName(ls[i]) \notin OpenNames(<<ls[1]>>)

\* the included file is itself an include with settings
Chained(ls) ==
    IsInclude(SplitLines(OverrideFiles[IncludedPath(ls[1])])[1])

\* C11: a variable that an including file leaves unbound stays open for the
\* files above it, a variable that a level has bound is closed for them: the
\* root file that sets a name its include does not leave open fails with
\* "invalid key", "unknown variable"; the root file that only sets names left
\* open is never refused so, the names it leaves open in its turn are the
\* unbound variables reported, and when it closes the last ones of a chain
\* of includes the values of every level are in the AST
VariablesStayOpen ==
    (step = "parsed" /\ env.res # Crashed /\ AllBindings(input.lines)) =>
        IF SetsClosedName(input.lines)
        THEN /\ env.res = -1
             /\ env.out_err.pfx = "invalid key"
             /\ env.out_err.msg = "unknown variable"
        ELSE /\ env.out_err.msg # "unknown variable"
             /\ OpenNames(input.lines) = {} => env.res = 0
             /\ OpenNames(input.lines) # {} =>
                    /\ env.res = -1
                    /\ env.out_err.msg = "there are unbound variables"
                    /\ {env.out_err.names[i] :
                           i \in 1..Len(env.out_err.names)}
                           = OpenNames(input.lines)
             /\ (env.res = 0 /\ Chained(input.lines)) =>
                    Tree(env, env.ret) = ExpectedTree(input.lines)

\* the root file sets again the variable that the file it includes has set
\* for the file below: the name is not open any more, the parse is refused
VariablesStayOpenWitness ==
    /\ step = "parsed"
    /\ AllBindings(input.lines)
    /\ Chained(input.lines)
    /\ \E i \in 2..Len(input.lines) :
          /\ SettingName(input.lines[i])
                \in NamesSet(SplitLines(OverrideFiles[IncludedPath(input.lines[1])]))
          /\ SettingName(input.lines[i])
                \in OpenNames(SplitLines(OverrideFiles[IncludedPath(
                        SplitLines(OverrideFiles[IncludedPath(input.lines[1])])[1])]))
    /\ env.res = -1
    /\ env.out_err.msg = "unknown variable"

(***************************************************************************)
(* Bindings and override fields in one mapping (SpecOverride)              *)
(***************************************************************************)

\* the settings of variables among the lines under the include, and the
\* other lines, each in the order of the document
BindingLines(ls) == SelectSeq(SettingsOf(ls), LAMBDA l : IsSetting(l))
FieldLines(ls) == SelectSeq(SettingsOf(ls), LAMBDA l : ~IsSetting(l))

\* the lines under the include hold settings that bind every open variable
\* of the included file, and fields of an override that parses and whose
\* kinds agree with the data it is merged in
IsMixed(ls) ==
    /\ Len(ls) > 1
    /\ IsInclude(ls[1])
    /\ BindingLines(ls) # <<>>
    /\ FieldLines(ls) # <<>>
    /\ IsBinding(<<ls[1]>> \o BindingLines(ls))
    /\ LET r == Standalone(Doc(FieldLines(ls)))
       IN /\ r.res = 0
          /\ Mismatches(r, r.ret,
                        ExpectedTree(<<ls[1]>> \o BindingLines(ls))) = <<>>

\* the settings come first in the mapping
BindingsFirst(ls) ==
    \A i, j \in 2..Len(ls) :
        (IsSetting(ls[j]) /\ ~IsSetting(ls[i])) => j < i

\* C12: in the mapping under an include, the entries whose key starts with
\* `$` bind variables and the other entries are the override, wherever they
\* are in the mapping: the AST is the included data with its variables
\* bound, merged with the override made of the other entries
BindingsAnywhere ==
    (step = "parsed" /\ IsMixed(input.lines)) =>
        LET r == Standalone(Doc(FieldLines(input.lines)))
        IN /\ env.res = 0
           /\ Tree(env, env.ret)
                 = MergeTree(Tree(r, r.ret),
                       ExpectedTree(<<input.lines[1]>>
                                        \o BindingLines(input.lines)))

\* C12 (amended): the settings of variables come first in the mapping under
\* an include.  Followed by the fields of the override, they bind the
\* variables and the fields are merged; a setting that comes after a field
\* of the override is refused with "invalid key", "cannot specify a variable
\* value in this context"
BindingsBeforeOverride ==
    (step = "parsed" /\ IsMixed(input.lines)) =>
        LET r == Standalone(Doc(FieldLines(input.lines)))
        IN IF BindingsFirst(input.lines)
           THEN /\ env.res = 0
                /\ Tree(env, env.ret)
                      = MergeTree(Tree(r, r.ret),
                            ExpectedTree(<<input.lines[1]>>
                                             \o BindingLines(input.lines)))
           ELSE /\ env.res = -1
                /\ env.out_err.pfx = "invalid key"
                /\ env.out_err.msg
                      = "cannot specify a variable value in this context"

\* a setting followed by a field of the override: the variable is bound and
\* the field merged in the data of the included file
BindingsBeforeOverrideWitness ==
    /\ step = "parsed"
    /\ IsMixed(input.lines)
    /\ BindingsFirst(input.lines)
    /\ env.res = 0
    /\ Tree(env, env.ret) # ExpectedTree(<<input.lines[1]>>
                                             \o BindingLines(input.lines))
    /\ Tree(env, env.ret) # IncludedTree(input.lines)

(***************************************************************************)
(* The column of an override.  The root file holds one include, at the     *)
(* root, in a sequence or under a key, and lines under it at every column  *)
(***************************************************************************)

MaxIndent == 4

\* the line of the include: at the root, after a dash (at two distances, and
\* with the dash away from the margin), after a key (of two lengths)
IncludeHeads ==
    { <<"!", "i", "n", "c", "l", "u", "d", "e", " ", "s", ".", "y", "m", "l">>,
      <<"-", " ", "!", "i", "n", "c", "l", "u", "d", "e", " ", "s", ".", "y", "m", "l">>,
      <<"-", " ", " ", " ", "!", "i", "n", "c", "l", "u", "d", "e", " ", "s", ".", "y", "m", "l">>,
      <<" ", " ", "-", " ", "!", "i", "n", "c", "l", "u", "d", "e", " ", "s", ".", "y", "m", "l">>,
      <<"k", ":", " ", "!", "i", "n", "c", "l", "u", "d", "e", " ", "s", ".", "y", "m", "l">>,
      <<"k", "e", "y", ":", " ", "!", "i", "n", "c", "l", "u", "d", "e", " ", "s", ".", "y", "m", "l">> }

\* the fields written under the include
IndentFields ==
    { <<"a", ":", " ", "9">>,
      <<"z", ":", " ", "5">> }

\* a field after n spaces
Indented(n, l) == [i \in 1..n |-> " "] \o l

IndentedLines ==
    {Indented(n, l) : n \in 0..MaxIndent, l \in IndentFields}

InitIndent ==
    /\ input \in {[root |-> RootPath, lines |-> <<h>> \o t,
                   flags |-> DefaultFlags, files |-> OverrideFiles] :
                      h \in IncludeHeads,
                      t \in {<<>>} \cup UNION {[1..n -> IndentedLines] :
                                                  n \in 1..MaxSettings}}
    /\ Start

NextIndent == Parse

SpecIndent == InitIndent /\ [][NextIndent]_vars

\* the column (from 1) of the first character of a line that is not a space
LineColumn(l) == CHOOSE i \in 1..Len(l) :
                     l[i] # " " /\ \A j \in 1..(i - 1) : l[j] = " "

\* the column where the include starts, and the include itself
IncludeColumn(h) == IndexFrom(h, "!", 1)
IncludeOf(h) == SubSeq(h, IncludeColumn(h), Len(h))

\* the least column of an override of the include of line h: any column
\* for an include at the root of the document, two columns after the dash or
\* the start of the key that the include is the value of
OverrideColumn(h) ==
    IF LineColumn(h) = IncludeColumn(h) THEN 1 ELSE LineColumn(h) + 2

\* the lines under the include are at one column and have distinct keys
Aligned(ls) ==
    /\ Len(ls) > 1
    /\ \A i, j \in 2..Len(ls) :
          /\ LineColumn(ls[i]) = LineColumn(ls[2])
          /\ i # j => LineKey(ls[i]) # LineKey(ls[j])

\* the lines under the include, without their indentation
Unindented(ls) ==
    [i \in 1..(Len(ls) - 1) |->
        SubSeq(ls[i + 1], LineColumn(ls[i + 1]), Len(ls[i + 1]))]

\* the data in the place of the include, in the AST t of the document
IncludedNode(ls, t) ==
    IF LineColumn(ls[1]) = IncludeColumn(ls[1]) THEN t ELSE t.items[1].val

\* the parse has merged the lines under the include in the included data
MergedUnder(ls) ==
    /\ env.res = 0
    /\ LET r == Standalone(Doc(Unindented(ls)))
       IN IncludedNode(ls, Tree(env, env.ret))
             = MergeTree(Tree(r, r.ret), IncludedTree(<<IncludeOf(ls[1])>>))

\* the parse has left the included data as the file gives it, or has failed
NotMergedUnder(ls) ==
    \/ env.res = -1
    \/ /\ env.res = 0
       /\ IncludedNode(ls, Tree(env, env.ret))
             = IncludedTree(<<IncludeOf(ls[1])>>)

MaxFlagRaw == 2

\* the flags of yaml_pack_env_set_flags: none, or YAML_PACK_NO_SUBFILES
PackFlagSets == {[no_subfiles |-> FALSE], [no_subfiles |-> TRUE]}

\* t_yaml_pack_env_new, t_yaml_pack_env_set_outdir when asked for,
\* yaml_pack_env_set_flags, t_yaml_pack_env_set_presentation, t_yaml_pack_sb
PackFlags ==
    /\ step \in {"parsed", "mutated"}
    /\ env.res = 0
    /\ \E flags \in PackFlagSets, dir \in BOOLEAN :
           pack' = t_yaml_pack_sb(
                       t_yaml_pack_env_set_presentation(
                           yaml_pack_env_set_flags(
                               IF dir
                               THEN t_yaml_pack_env_set_outdir(
                                        t_yaml_pack_env_new(env, fs), OutDir)
                               ELSE t_yaml_pack_env_new(env, fs),
                               flags),
                           t_yaml_data_get_presentation(env, env.ret)),
                       env.ret)
    /\ step' = "packed"
    /\ UNCHANGED <<fs, input, env, aux>>

NextFlags == Parse \/ Mutate \/ PackFlags

InitFlags ==
    /\ input \in {[root |-> RootPath, lines |-> <<h>> \o t,
                   flags |-> DefaultFlags, files |-> DirFiles] :
                      h \in DirIncludes,
                      t \in {<<>>} \cup UNION {[1..n -> DirOverrides] :
                                                 n \in 1..MaxSettings}}
             \cup {[root |-> RootPath, lines |-> ls, flags |-> DefaultFlags,
                    files |-> RawFiles] :
                      ls \in UNION {[1..n -> RawItems] : n \in 1..MaxFlagRaw}}
    /\ Start

SpecFlags == InitFlags /\ [][NextFlags]_vars

(***************************************************************************)
(* Properties of SpecFlags                                                 *)
(***************************************************************************)

\* the number of include tags, "!include" or "!includeraw", of a text
IncludeTags(text) ==
    Cardinality({i \in 1..Len(text) :
                    /\ i + 7 <= Len(text)
                    /\ SubSeq(text, i, i + 7)
                           = <<"!", "i", "n", "c", "l", "u", "d", "e">>})

\* C14 as stated: with YAML_PACK_NO_SUBFILES the included documents are
\* inlined, the output holds no include tag, and no file is created
NoSubfilesInlines ==
    (step = "packed" /\ pack.res = 0 /\ pack.flags.no_subfiles)
        => /\ IncludeTags(pack.out) = 0
           /\ pack.written = <<>>
           /\ pack.disk = fs

\* C14: with YAML_PACK_NO_SUBFILES every include of the root document is
\* packed as an include node and no file is created; the included documents
\* are inlined, with no include node and no file, when neither the flag nor
\* an output directory is set
NoSubfilesKeepsIncludes ==
    (step = "packed" /\ pack.res = 0) =>
        /\ pack.flags.no_subfiles
              => /\ IncludeTags(pack.out) = IncludeTags(Doc(input.lines))
                 /\ pack.written = <<>>
                 /\ pack.disk = fs
        /\ (~pack.flags.no_subfiles /\ pack.outdirpath = <<>>)
              => /\ IncludeTags(pack.out) = 0
                 /\ pack.written = <<>>
                 /\ pack.disk = fs

\* a document with an include has been packed with the flag and without an
\* output directory
NoSubfilesKeepsIncludesWitness ==
    /\ step = "packed"
    /\ pack.res = 0
    /\ pack.flags.no_subfiles
    /\ pack.outdirpath = <<>>
    /\ IncludeTags(pack.out) > 0

\* the path of the include tag of a line that has one
IncludeLinePath(l) ==
    LET tag == CHOOSE i \in 1..Len(l) :
                   /\ i + 7 <= Len(l)
                   /\ SubSeq(l, i, i + 7)
                          = <<"!", "i", "n", "c", "l", "u", "d", "e">>
    IN SubSeq(l, IndexFrom(l, " ", tag) + 1, Len(l))

\* the paths of the include tags of a text, in the order of its lines
IncludePaths(text) ==
    LET ls == SelectSeq(SplitLines(text), LAMBDA l : IncludeTags(l) > 0)
    IN [i \in 1..Len(ls) |-> IncludeLinePath(ls[i])]

\* C15: with YAML_PACK_NO_SUBFILES and the presentation of the parse, the
\* includes of the root document are packed with the paths they were parsed
\* with, whatever was assigned to the AST, no file is written, and a
\* document whose AST was left alone is packed as it was written
NoSubfilesRecreatesRoot ==
    (step = "packed" /\ pack.res = 0 /\ pack.flags.no_subfiles)
        => /\ IncludePaths(pack.out) = IncludePaths(Doc(input.lines))
           /\ pack.written = <<>>
           /\ pack.disk = fs
           /\ aux.mutated = 0 => pack.out \o <<"\n">> = Doc(input.lines)

(***************************************************************************)
(* Flow nodes.  The documents hold flow sequences and objects, their own   *)
(* or those of a file they include with an override; the owner of the AST  *)
(* sets tags on its nodes, then packs it                                   *)
(***************************************************************************)

MaxTags == 1

\* the slots of the nodes of an AST
RECURSIVE DataSlots(_, _)
DataSlots(e, slot) ==
    IF e.mem[slot].type \in {"seq", "obj"}
    THEN {slot} \cup
         UNION {DataSlots(e, e.conts[e.mem[slot].cont].items[i].slot) :
                   i \in 1..Len(e.conts[e.mem[slot].cont].items)}
    ELSE {slot}

\* one assignment to data.tag, on a node of an AST returned by t_yaml_parse
SetTag ==
    /\ step \in {"parsed", "mutated"}
    /\ env.res = 0
    /\ aux.mutated < MaxTags
    /\ \E slot \in DataSlots(env, env.ret) :
           /\ ~env.mem[slot].has_tag
           /\ env' = [env EXCEPT !.mem[slot].has_tag = TRUE,
                                 !.mem[slot].tag = <<"t">>]
    /\ aux' = [aux EXCEPT !.mutated = @ + 1]
    /\ step' = "mutated"
    /\ UNCHANGED <<fs, input, pack>>

\* t_yaml_pack_env_new, t_yaml_pack_env_set_outdir and
\* t_yaml_pack_env_set_presentation when asked for, t_yaml_pack_sb
PackFlow ==
    /\ step \in {"parsed", "mutated"}
    /\ env.res = 0
    /\ \E use_pres \in BOOLEAN, dir \in BOOLEAN :
           pack' = t_yaml_pack_sb(
                       With(IF dir
                            THEN t_yaml_pack_env_set_outdir(
                                     t_yaml_pack_env_new(env, fs), OutDir)
                            ELSE t_yaml_pack_env_new(env, fs),
                            LAMBDA p :
                       IF use_pres
                       THEN t_yaml_pack_env_set_presentation(
                                p, t_yaml_data_get_presentation(env, env.ret))
                       ELSE p),
                       env.ret)
    /\ step' = "packed"
    /\ UNCHANGED <<fs, input, env, aux>>

NextFlow == Parse \/ SetTag \/ PackFlow

\* the fields of the documents: two flow nodes, a scalar
FlowLines ==
    { <<"a", ":", " ", "{", " ", "k", ":", " ", "d", " ", "}">>,
      <<"b", ":", " ", "[", " ", "1", ",", " ", "2", " ", "]">>,
      <<"c", ":", " ", "1">> }

\* the file that the documents include: its field c is a flow object
FlowFiles ==
       (<<"/", "w", "/", "g", ".", "y", "m", "l">> :>
           <<"a", ":", " ", "1", "\n", "c", ":", " ", "{", " ", "d", ":", " ", "3", " ", "}", "\n">>)

FlowInclude == <<"!", "i", "n", "c", "l", "u", "d", "e", " ", "g", ".", "y", "m", "l">>

\* the fields of the overrides: the last two change the flow object
FlowOverrides ==
    { <<"a", ":", " ", "9">>,
      <<"c", "c", ":", " ", "4">>,
      <<"c", ":", "\n", " ", " ", "d", ":", " ", "4">>,
      <<"c", ":", "\n", " ", " ", "e", ":", " ", "4">> }

InitFlow ==
    /\ input \in {[root |-> RootPath, lines |-> ls, flags |-> DefaultFlags,
                   files |-> FlowFiles] :
                      ls \in LineSeqs(FlowLines) \cup
                             {<<FlowInclude>> \o t :
                                  t \in {<<>>} \cup
                                        UNION {[1..n -> FlowOverrides] :
                                                  n \in 1..MaxSettings}}}
    /\ Start

SpecFlow == InitFlow /\ [][NextFlow]_vars

(***************************************************************************)
(* Properties of SpecFlow                                                  *)
(***************************************************************************)

\* a node of an AST carries a tag, or one of its descendants does
RECURSIVE TreeTagged(_)
TreeTagged(t) ==
    \/ t.has_tag
    \/ /\ t.type \in {"seq", "obj"}
       /\ \E i \in 1..Len(t.items) : TreeTagged(t.items[i].val)

\* a line holds a flow sequence or a flow object
HasBracket(l) == \E i \in 1..Len(l) : l[i] \in {"{", "["}

\* the value of the key of a text is written in flow style
FlowOut(text, key) ==
    \E i \in 1..Len(SplitLines(text)) :
        /\ lstr_startswith(SplitLines(text)[i], key \o <<":">>)
        /\ HasBracket(SplitLines(text)[i])

\* the fields of the override of the root file that change the value of key
Overriding(ls, key) == {j \in 2..Len(ls) : LineKey(ls[j]) = key}

\* C16: a flow node of the document is packed in flow style if and only if
\* no tag is found in it and no override of its include changes it.  The
\* flow nodes are the fields with brackets of a document without include,
\* and the field c of the included file, written in the output directory
FlowKept ==
    (step = "packed" /\ pack.res = 0) =>
        LET t == Tree(env, env.ret) IN
        IF input.lines[1] = FlowInclude
        THEN pack.outdirpath # <<>> =>
                 /\ Len(pack.written) = 1
                 /\ FlowOut(pack.written[1].contents, <<"c">>)
                       <=> /\ ~TreeTagged(t.items[KeyPos(t.items, <<"c">>)].val)
                           /\ Overriding(input.lines, <<"c">>) = {}
        ELSE \A i \in 1..Len(input.lines) :
                 HasBracket(input.lines[i]) =>
                     (FlowOut(pack.out, LineKey(input.lines[i]))
                         <=> ~TreeTagged(t.items[i].val))

(***************************************************************************)
(* The two presentations.  A document, with or without an include, is     *)
(* parsed, then packed in one buffer with the presentation attached to    *)
(* the nodes of its AST or with the one of t_yaml_data_get_presentation   *)
(***************************************************************************)

InitPres ==
    /\ input \in {[root |-> RootPath, lines |-> ls, flags |-> DefaultFlags,
                   files |-> <<>>] : ls \in LineSeqs(DocLines)}
             \cup {[root |-> RootPath, lines |-> <<h>> \o t,
                    flags |-> DefaultFlags, files |-> OverrideFiles] :
                      h \in IncludeLines, t \in Settings}
    /\ Start

NextPres == Parse \/ Pack

SpecPres == InitPres /\ [][NextPres]_vars

\* C17: the output of the packing of a parsed document is the same with the
\* presentation attached to the nodes of the AST and with the document
\* presentation of t_yaml_data_get_presentation
PresentationsAgree ==
    (step = "packed") =>
        /\ pack.res = PackInline(env, ~pack.has_pres).res
        /\ pack.out = PackInline(env, ~pack.has_pres).out

\* a document with a comment has been packed with its document presentation,
\* and the comment is in the output
PresentationsAgreeWitness ==
    /\ step = "packed"
    /\ pack.res = 0
    /\ pack.has_pres
    /\ \E i \in 1..Len(pack.out) : pack.out[i] = "#"

(***************************************************************************)
(* Empty lines.  The documents are fields, comments and empty lines; they  *)
(* are parsed, then packed with either presentation                        *)
(***************************************************************************)

MaxBlankLines == 5

EmptyLine == <<>>
CommentLine == <<"#", " ", "k">>

BlankLines ==
    { EmptyLine, CommentLine, <<"a", ":", " ", "1">>, <<"b", ":", " ", "2">> }

InitBlank ==
    /\ input \in {[root |-> RootPath, lines |-> ls, flags |-> DefaultFlags,
                   files |-> <<>>] :
                      ls \in UNION {[1..n -> BlankLines] :
                                       n \in 1..MaxBlankLines}}
    /\ Start

NextBlank == Parse \/ Pack

SpecBlank == InitBlank /\ [][NextBlank]_vars

(***************************************************************************)
(* Properties of SpecBlank                                                 *)
(***************************************************************************)

\* the first of the empty lines and comments that come just before line i
RECURSIVE PrefixStart(_, _)
PrefixStart(ls, i) ==
    IF i > 1 /\ ls[i - 1] \in {EmptyLine, CommentLine}
    THEN PrefixStart(ls, i - 1) ELSE i

\* the empty lines, and the comments, that come just before line i
EmptyBefore(ls, i) ==
    Cardinality({j \in PrefixStart(ls, i)..(i - 1) : ls[j] = EmptyLine})
CommentsBefore(ls, i) ==
    Cardinality({j \in PrefixStart(ls, i)..(i - 1) : ls[j] = CommentLine})

\* n copies of the line l, each with its newline
RECURSIVE Copies(_, _)
Copies(n, l) == IF n = 0 THEN <<>> ELSE l \o <<"\n">> \o Copies(n - 1, l)

\* the document with, before each field, at most two empty lines, then the
\* comments that came before it; what follows the last field is left out
RECURSIVE BlankNormal(_, _)
BlankNormal(ls, i) ==
    IF i > Len(ls) THEN <<>>
    ELSE IF ls[i] \in {EmptyLine, CommentLine} THEN BlankNormal(ls, i + 1)
    ELSE Copies(Min(EmptyBefore(ls, i), 2), EmptyLine)
             \o Copies(CommentsBefore(ls, i), CommentLine)
             \o ls[i] \o <<"\n">> \o BlankNormal(ls, i + 1)

\* C18: no node of the presentation has more than two empty lines, and the
\* packed document has, before each field, the empty lines found before and
\* after its prefix comments, two at most, followed by the comments
EmptyLinesBounded ==
    (step \in {"parsed", "packed"} /\ env.res = 0) =>
        /\ \A n \in 1..Len(env.nodes) : env.nodes[n].empty_lines <= 2
        /\ step = "packed" =>
               /\ pack.res = 0
               /\ pack.out \o <<"\n">> = BlankNormal(input.lines, 1)

\* a field that follows three empty lines or more, with a comment among
\* them, has been packed
EmptyLinesBoundedWitness ==
    /\ step = "packed"
    /\ pack.res = 0
    /\ \E i \in 1..Len(input.lines) :
           /\ input.lines[i] \notin {EmptyLine, CommentLine}
           /\ EmptyBefore(input.lines, i) >= 3
           /\ CommentsBefore(input.lines, i) >= 1
           /\ /\ i > 2
              /\ input.lines[i - 1] = EmptyLine
              /\ input.lines[PrefixStart(input.lines, i)] = EmptyLine

(***************************************************************************)
(* The states of the packer.  yaml_pack_goto_state is called on a new      *)
(* context with a sequence of targets, at several indentations; the        *)
(* documents are parsed and packed as well                                 *)
(***************************************************************************)

MaxGotos == 3

PackStates == {"CLEAN", "ON_DASH", "ON_KEY", "ON_NEWLINE", "AFTER_DATA"}

\* the values of env->indent_lvl at the calls
IndentLevels == {0, YAML_STD_INDENT, YAML_STD_INDENT + YAML_STD_INDENT}

\* one call of yaml_pack_goto_state: the next target of the sequence
Goto ==
    /\ step = "start"
    /\ aux.mutated < Len(input.targets)
    /\ \E lvl \in IndentLevels :
           pack' = yaml_pack_goto_state([pack EXCEPT !.indent_lvl = lvl],
                                        input.targets[aux.mutated + 1])
    /\ aux' = [aux EXCEPT !.mutated = @ + 1]
    /\ UNCHANGED <<fs, input, env, step>>

NextGoto == Parse \/ Pack \/ Goto

InitGoto ==
    /\ input \in {[root |-> RootPath, lines |-> ls, flags |-> DefaultFlags,
                   files |-> <<>>, targets |-> <<>>] :
                      ls \in LineSeqs(DocLines)}
             \cup {[root |-> RootPath, lines |-> <<<<"a", ":", " ", "1">>>>,
                    flags |-> DefaultFlags, files |-> <<>>, targets |-> ts] :
                      ts \in UNION {[1..n -> PackStates] : n \in 1..MaxGotos}}
    /\ Start

SpecGoto == InitGoto /\ [][NextGoto]_vars

\* the separator of the table, for a transition at the indentation lvl
Separator(cur, new, lvl) ==
    LET newline == <<"\n">>
        space == <<" ">>
        indent == [i \in 1..lvl |-> " "]
    IN CASE cur = "CLEAN" /\ new = "ON_NEWLINE" -> newline
         [] cur = "ON_DASH" /\ new \in {"CLEAN", "ON_DASH", "ON_KEY"} -> space
         [] cur = "ON_DASH" /\ new = "ON_NEWLINE" -> newline
         [] cur = "ON_KEY" /\ new = "CLEAN" -> space
         [] cur = "ON_KEY" /\ new \in {"ON_DASH", "ON_KEY"} -> newline \o indent
         [] cur = "ON_KEY" /\ new = "ON_NEWLINE" -> newline
         [] cur = "ON_NEWLINE" /\ new \in {"CLEAN", "ON_DASH", "ON_KEY"} -> indent
         [] cur = "AFTER_DATA" /\ new = "CLEAN" -> space
         [] cur = "AFTER_DATA" /\ new \in {"ON_DASH", "ON_KEY"} -> newline \o indent
         [] cur = "AFTER_DATA" /\ new = "ON_NEWLINE" -> newline
         [] OTHER -> <<>>

\* C19: a call of yaml_pack_goto_state writes the separator of the table
\* for the state it finds and its target, and leaves the context in the
\* target; a new context is in ON_NEWLINE; no token is written by the
\* packing of a document unless the last transition was to CLEAN, ON_DASH
\* or ON_KEY
GotoStateTable ==
    /\ [](step = "start" /\ aux.mutated = 0 => pack.state = "ON_NEWLINE")
    /\ [](step = "packed" => ~pack.untimely)
    /\ [][(step = "start" /\ aux'.mutated = aux.mutated + 1) =>
             /\ pack'.out = pack.out \o Separator(pack.state,
                                                  input.targets[aux'.mutated],
                                                  pack'.indent_lvl)
             /\ pack'.state = input.targets[aux'.mutated]]_vars

\* a key has been put after a data, on a new line with its indentation
GotoStateTableWitness ==
    /\ step = "start"
    /\ aux.mutated >= 2
    /\ input.targets[aux.mutated - 1] = "AFTER_DATA"
    /\ input.targets[aux.mutated] = "ON_KEY"
    /\ pack.indent_lvl = YAML_STD_INDENT
    /\ pack.out # <<>>
    /\ pack.out[Len(pack.out)] = " "

\* the value of a scalar, of an AST or of an original_data
ScalarValue(v) ==
    [stype |-> v.stype,
     s |-> IF v.stype = "string" THEN v.s ELSE <<>>,
     n |-> IF v.stype \in {"uint", "int"} THEN v.n ELSE 0]

NoValue == [stype |-> "none", s |-> <<>>, n |-> 0]

\* the entries of the merge of the override o in the data t, found at path:
\* the scalar replaced, the elements appended, the fields added, in the
\* order of the fields of o
RECURSIVE OverrideEntries(_, _, _)
OverrideEntries(o, t, path) ==
    IF o.type = "scalar"
    THEN <<[path |-> path \o <<"!">>, has_data |-> TRUE,
            value |-> ScalarValue(t)]>>
    ELSE IF o.type = "seq"
    THEN [i \in 1..Len(o.items) |->
             [path |-> path \o FmtIndex(Len(t.items) + i - 1),
              has_data |-> FALSE, value |-> NoValue]]
    ELSE Concat([i \in 1..Len(o.items) |->
             IF KeyPos(t.items, o.items[i].key) = 0
             THEN <<[path |-> path \o <<".">> \o o.items[i].key,
                     has_data |-> FALSE, value |-> NoValue]>>
             ELSE OverrideEntries(
                      o.items[i].val,
                      t.items[KeyPos(t.items, o.items[i].key)].val,
                      path \o <<".">> \o o.items[i].key)])

\* the entries recorded for the include of the root file
RecordedEntries ==
    [i \in 1..Len(env.incs[1].override_nodes) |->
        [path |-> env.incs[1].override_nodes[i].path,
         has_data |-> env.incs[1].override_nodes[i].has_data,
         value |-> IF env.incs[1].override_nodes[i].has_data
                   THEN ScalarValue(env.incs[1].override_nodes[i].original_data)
                   ELSE NoValue]]

\* C20: the entries recorded by the merge of an override are, in the order
\* of the fields of the override, one entry "<path>!" with the scalar it
\* held for each scalar overwritten, one entry "<path>.k" for each key
\* added, one entry "<path>[idx]" for each element appended, and none for a
\* mapping that is recursed into
OverrideRecorded ==
    (step = "parsed" /\ env.res = 0 /\ Len(input.lines) > 1) =>
        /\ Len(env.incs) = 1
        /\ env.incs[1].has_override
        /\ RecordedEntries
               = OverrideEntries(OverrideTree,
                                 FileTree(fs, IncludedPath(input.lines[1])),
                                 <<>>)

\* an override that replaces a scalar of a mapping it recurses into, after
\* another field, has been merged
OverrideRecordedWitness ==
    /\ step = "parsed"
    /\ env.res = 0
    /\ Len(input.lines) = 3
    /\ Len(env.incs[1].override_nodes) = 2
    /\ env.incs[1].override_nodes[2].path = <<".", "c", ".", "d", "!">>
    /\ env.incs[1].override_nodes[2].has_data
    /\ ~env.incs[1].override_nodes[1].has_data

(***************************************************************************)
(* Nodes removed.  The root file includes a file with an override; the     *)
(* owner of the AST shortens its containers, then packs it with an output  *)
(* directory                                                               *)
(***************************************************************************)

\* the containers of an AST that hold something
Shortenable(e) ==
    {slot \in DataSlots(e, e.ret) :
        /\ e.mem[slot].type \in {"seq", "obj"}
        /\ Len(e.conts[e.mem[slot].cont].items) > 0}

\* fields.len-- or datas.len-- on a container of the AST
Remove ==
    /\ step \in {"parsed", "mutated"}
    /\ env.res = 0
    /\ aux.mutated < MaxMutations
    /\ \E slot \in Shortenable(env) :
           env' = [env EXCEPT !.conts[env.mem[slot].cont].items =
                                  SubSeq(@, 1, Len(@) - 1)]
    /\ aux' = [aux EXCEPT !.mutated = @ + 1]
    /\ step' = "mutated"
    /\ UNCHANGED <<fs, input, pack>>

NextRemove == Parse \/ Remove \/ PackDir

SpecRemove == InitDir /\ [][NextRemove]_vars

\* the data found in the AST t at the end of a path of override node, or
\* NoTree when the path leads nowhere
RECURSIVE AtPath(_, _)
AtPath(t, path) ==
    IF path = <<>> \/ path = <<"!">> THEN t
    ELSE IF path[1] = "."
    THEN LET stop == SpanAlnum(path, 2)
             key == SubSeq(path, 2, stop - 1)
         IN IF t.type = "obj" /\ KeyPos(t.items, key) # 0
            THEN AtPath(t.items[KeyPos(t.items, key)].val,
                        SubSeq(path, stop, Len(path)))
            ELSE NoTree
    ELSE LET close == IndexFrom(path, "]", 1)
             idx == {n \in 0..Len(path) :
                        FmtIndex(n) = SubSeq(path, 1, close)}
         IN IF t.type = "seq"
               /\ \E n \in idx : n < Len(t.items)
            THEN AtPath(t.items[(CHOOSE n \in idx : TRUE) + 1].val,
                        SubSeq(path, close + 1, Len(path)))
            ELSE NoTree

\* the data v put back at the end of a path of override node
RECURSIVE Wrap(_, _)
Wrap(path, v) ==
    IF path = <<>> \/ path = <<"!">> THEN v
    ELSE IF path[1] = "."
    THEN [type |-> "obj", tag |-> <<>>, has_tag |-> FALSE,
          items |-> <<[key |-> SubSeq(path, 2, SpanAlnum(path, 2) - 1),
                       val |-> Wrap(SubSeq(path, SpanAlnum(path, 2),
                                           Len(path)), v)]>>]
    ELSE [type |-> "seq", tag |-> <<>>, has_tag |-> FALSE,
          items |-> <<[key |-> <<>>,
                       val |-> Wrap(SubSeq(path, IndexFrom(path, "]", 1) + 1,
                                           Len(path)), v)]>>]

\* the node recorded for a field of the override of the root file
FieldPath(l) ==
    LET r == Standalone(Doc(<<l>>))
    IN OverrideEntries(Tree(r, r.ret),
                       FileTree(fs, IncludedPath(input.lines[1])),
                       <<>>)[1].path

\* the fields of the override of the root file whose node is still in the
\* AST, in their order
FieldsReached ==
    SelectSeq(SettingsOf(input.lines), LAMBDA l :
        AtPath(Tree(env, env.ret), FieldPath(l)) # NoTree)

\* the fields that the override packed has to hold: for each field whose
\* node is still in the AST, what the AST holds at its path
ExpectedOverride ==
    [i \in 1..Len(FieldsReached) |->
        Wrap(FieldPath(FieldsReached[i]),
             AtPath(Tree(env, env.ret), FieldPath(FieldsReached[i]))).items[1]]

\* the fields of the override of the root document as packed
PackedOverride ==
    LET nl == IndexFrom(pack.out, "\n", 1)
        r == Standalone(SubSeq(pack.out, nl + 1, Len(pack.out)))
    IN IF nl = 0 THEN <<>>
       ELSE IF r.res = 0 /\ r.mem[r.ret].type = "obj"
       THEN Tree(r, r.ret).items
       ELSE <<NoTree>>

\* C21: the override packed after containers of the AST were shortened
\* holds the fields of the override whose node is still in the AST, in
\* their order, with the values of the AST, and the root document is the
\* include line alone when none is left
RemovedNodesDropped ==
    (step = "packed" /\ Len(input.lines) > 1) =>
        /\ pack.res = 0
        /\ SplitLines(pack.out)[1] = input.lines[1]
        /\ PackedOverride = ExpectedOverride

\* a field of the override has been dropped and the one before it kept
RemovedNodesDroppedWitness ==
    /\ step = "packed"
    /\ pack.res = 0
    /\ Len(input.lines) = 3
    /\ Len(FieldsReached) = 1
    /\ FieldsReached[1] = input.lines[2]
    /\ Len(PackedOverride) = 1

(***************************************************************************)
(* Packing of variables.  The included files refer to variables with       *)
(* leaves that are exactly `$name`; the documents that include them bind   *)
(* the variables, one level up or two                                      *)
(***************************************************************************)

\* the files that the documents include: two variables, an include that
\* binds the first of them and leaves the second open, one variable at two
\* places
VarFiles ==
       (<<"/", "w", "/", "k", ".", "y", "m", "l">> :>
           <<"a", ":", " ", "$", "v", "\n", "b", ":", " ", "$", "w", "\n">>)
    @@ (<<"/", "w", "/", "m", ".", "y", "m", "l">> :>
           <<"!", "i", "n", "c", "l", "u", "d", "e", " ", "k", ".", "y", "m", "l", "\n", "$", "v", ":", " ", "3", "\n">>)
    @@ (<<"/", "w", "/", "t", ".", "y", "m", "l">> :>
           <<"a", ":", " ", "$", "v", "\n", "b", ":", " ", "$", "v", "\n">>)

VarIncludes ==
    { <<"!", "i", "n", "c", "l", "u", "d", "e", " ", "k", ".", "y", "m", "l">>,
      <<"!", "i", "n", "c", "l", "u", "d", "e", " ", "m", ".", "y", "m", "l">>,
      <<"!", "i", "n", "c", "l", "u", "d", "e", " ", "t", ".", "y", "m", "l">> }

\* the values of the variables, and a field of an override
VarSettings ==
    { <<"$", "v", ":", " ", "5">>,
      <<"$", "v", ":", " ", "x">>,
      <<"$", "w", ":", " ", "4">>,
      <<"$", "w", ":", " ", "~">>,
      <<"c", ":", " ", "9">> }

InitVars ==
    /\ input \in {[root |-> RootPath, lines |-> <<h>> \o t,
                   flags |-> DefaultFlags, files |-> VarFiles] :
                      h \in VarIncludes,
                      t \in {<<>>} \cup UNION {[1..n -> VarSettings] :
                                                 n \in 1..(MaxSettings + 1)}}
    /\ Start

NextVars == Parse \/ Mutate \/ PackDir

SpecVars == InitVars /\ [][NextVars]_vars

(***************************************************************************)
(* Properties of SpecVars.  The documents are read again, line by line,    *)
(* without the parser: the variables they set and the leaves that refer to *)
(* them                                                                    *)
(***************************************************************************)

\* the file of the output directory written for an included file
OutFile(f) == OutDir \o SubSeq(f, Len(Cwd) + 1, Len(f))

\* the file whose leaves the AST holds: the file that the root file
\* includes, or the one that this file includes
LeafFile ==
    LET f == IncludedPath(input.lines[1])
        ls == SplitLines(input.files[f])
    IN IF IsInclude(ls[1]) THEN IncludedPath(ls[1]) ELSE f

\* the lines `key: $name` of the leaf file that refer to the variable
VarSites(name) ==
    LET ls == SplitLines(input.files[LeafFile])
    IN {i \in 1..Len(ls) : SettingText(ls[i]) = <<"$">> \o name}

\* the text of a scalar of the documents: one digit, one word, or null
ValueText(v) ==
    IF v.type # "scalar" THEN <<>>
    ELSE IF v.stype = "null" THEN <<"~">>
    ELSE IF v.stype = "string" THEN v.s
    ELSE <<<<"0", "1", "2", "3", "4", "5", "6", "7", "8", "9">>[v.n + 1]>>

\* the values that the leaves of the AST referring to the variable hold
SiteTexts(name) ==
    LET t == Tree(env, env.ret)
        ls == SplitLines(input.files[LeafFile])
    IN {ValueText(AtPath(t, <<".">> \o LineKey(ls[i]))) : i \in VarSites(name)}

\* the document `packed` is the document `orig` as to its variables: it sets
\* the variables that `orig` sets, each to a value of its leaves, right
\* after the include and before the fields of the override
SettingsOfBinder(orig, packed) ==
    /\ packed # <<>> /\ packed[1] = orig[1]
    /\ NamesSet(packed) = NamesSet(orig)
    /\ \A i \in 2..Len(packed) :
           IF IsSetting(packed[i])
           THEN /\ SettingText(packed[i]) \in SiteTexts(SettingName(packed[i]))
                /\ \A j \in 2..(i - 1) : IsSetting(packed[j])
                /\ \A j \in 2..(i - 1) :
                       SettingName(packed[j]) # SettingName(packed[i])
           ELSE TRUE

\* C22: an include packed with an output directory.  The leaves that are
\* references `$name` are written as such in the subfile of the leaf file,
\* and every document that binds variables, the root document or an included
\* file, is written with its include line followed by one entry `$name:` for
\* each variable it bound and for no other, holding a value found at a leaf
\* of that variable, before the fields of its override
VariablesAtBinder ==
    (step = "packed" /\ pack.res = 0) =>
        LET leaf == SplitLines(input.files[LeafFile])
            mid == IncludedPath(input.lines[1])
        IN /\ OutFile(LeafFile) \in DOMAIN pack.disk
           /\ SplitLines(pack.disk[OutFile(LeafFile)]) = leaf
           /\ SettingsOfBinder(input.lines, SplitLines(pack.out))
           /\ mid # LeafFile =>
                  /\ OutFile(mid) \in DOMAIN pack.disk
                  /\ SettingsOfBinder(SplitLines(input.files[mid]),
                                      SplitLines(pack.disk[OutFile(mid)]))

(***************************************************************************)
(* Presentation slots of the sequences.  The included file holds a         *)
(* sequence in block style or in flow style, and the override of the       *)
(* include appends elements to it, or adds a sequence of its own           *)
(***************************************************************************)

\* the files that the documents include: a block sequence whose second
\* element has a comment, a flow sequence
SeqFiles ==
       (<<"/", "w", "/", "x", ".", "y", "m", "l">> :>
           <<"b", ":", "\n", " ", " ", "-", " ", "1", "\n", " ", " ", "#", " ", "d", "\n", " ", " ", "-", " ", "2", "\n">>)
    @@ (<<"/", "w", "/", "y", ".", "y", "m", "l">> :>
           <<"b", ":", " ", "[", " ", "1", ",", " ", "2", " ", "]", "\n">>)

SeqIncludes ==
    { <<"!", "i", "n", "c", "l", "u", "d", "e", " ", "x", ".", "y", "m", "l">>,
      <<"!", "i", "n", "c", "l", "u", "d", "e", " ", "y", ".", "y", "m", "l">> }

\* the fields of the overrides: block and flow sequences, for the key of
\* the file and for a new key
BlockOne == <<":", "\n", " ", " ", "-", " ", "8">>
BlockTwo ==
    <<":", "\n", " ", " ", "-", " ", "8", "\n", " ", " ", "#", " ", "c", "\n", " ", " ", "-", " ", "7">>
FlowOne == <<":", " ", "[", " ", "8", " ", "]">>

SeqOverrides ==
    { <<"b">> \o BlockOne, <<"b">> \o BlockTwo, <<"b">> \o FlowOne,
      <<"z">> \o BlockOne, <<"z">> \o FlowOne }

InitSeq ==
    /\ input \in {[root |-> RootPath, lines |-> <<h>> \o t,
                   flags |-> DefaultFlags, files |-> SeqFiles] :
                      h \in SeqIncludes,
                      t \in {<<>>} \cup UNION {[1..n -> SeqOverrides] :
                                                 n \in 1..MaxSettings}}
    /\ Start

NextSeq == Parse

SpecSeq == InitSeq /\ [][NextSeq]_vars

(***************************************************************************)
(* Properties of SpecSeq.  What the documents hold is read from their      *)
(* lines: for each sequence, the elements written in block style, in       *)
(* order, and whether a comment precedes them                              *)
(***************************************************************************)

\* the sequences of the AST
SeqSlots(e) == {slot \in DataSlots(e, e.ret) : e.mem[slot].type = "seq"}

\* the number of elements that a field of an override holds
LineElems(l) ==
    IF SubSeq(l, 2, Len(l)) = BlockTwo THEN 2 ELSE 1

\* for each element of a field written in block style, in order: whether a
\* comment precedes it.  A field in flow style has no such element
LineBlocks(l) ==
    IF SubSeq(l, 2, Len(l)) = BlockOne THEN <<FALSE>>
    ELSE IF SubSeq(l, 2, Len(l)) = BlockTwo THEN <<FALSE, TRUE>>
    ELSE <<>>

\* the same for the sequence `b` of the included file
FileBlocks ==
    IF input.lines[1][10] = "x" THEN <<FALSE, TRUE>> ELSE <<>>

\* the elements of the sequence `key` of the document written in block
\* style: those of the file, then those of the fields of the override
RECURSIVE OverrideBlocks(_, _, _)
OverrideBlocks(ls, key, i) ==
    IF i > Len(ls) THEN <<>>
    ELSE (IF LineKey(ls[i]) = key THEN LineBlocks(ls[i]) ELSE <<>>)
         \o OverrideBlocks(ls, key, i + 1)

ExpectedBlocks(key) ==
    (IF key = <<"b">> THEN FileBlocks ELSE <<>>)
    \o OverrideBlocks(input.lines, key, 2)

RECURSIVE OverrideElems(_, _, _)
OverrideElems(ls, key, i) ==
    IF i > Len(ls) THEN 0
    ELSE (IF LineKey(ls[i]) = key THEN LineElems(ls[i]) ELSE 0)
         + OverrideElems(ls, key, i + 1)

ExpectedElems(key) ==
    (IF key = <<"b">> THEN 2 ELSE 0) + OverrideElems(input.lines, key, 2)

\* the container of the sequence `key` of the AST
SeqCont(key) ==
    LET items == env.conts[env.mem[env.ret].cont].items
    IN env.conts[env.mem[items[KeyPos(items, key)].slot].cont]

\* for each slot of the sequence: whether its node holds a comment
SlotComments(c) ==
    [i \in 1..Len(c.pres_nodes) |->
        /\ c.pres_nodes[i] # 0
        /\ env.nodes[c.pres_nodes[i]].prefix_comments # <<>>]

\* C23 as stated: in every sequence of the AST of a successful parse, as
\* many presentation slots as elements
SlotsParallel ==
    (step = "parsed" /\ env.res = 0) =>
        \A slot \in SeqSlots(env) :
            Len(env.conts[env.mem[slot].cont].pres_nodes)
                = Len(env.conts[env.mem[slot].cont].items)

\* C23, amended: the slots of a sequence are those of its elements written
\* in block style, in order: a block sequence has one slot for each element,
\* slot i belonging to element i, a flow sequence has none, and an override
\* appends the slots of its elements to those of the sequence as it appends
\* the elements
SlotsOfBlockElements ==
    (step = "parsed" /\ env.res = 0) =>
        \A key \in {<<"b">>, <<"z">>} :
            ExpectedElems(key) > 0 =>
                /\ Len(SeqCont(key).items) = ExpectedElems(key)
                /\ SlotComments(SeqCont(key)) = ExpectedBlocks(key)

SlotsOfBlockElementsWitness ==
    /\ step = "parsed" /\ env.res = 0
    /\ input.lines = <<<<"!", "i", "n", "c", "l", "u", "d", "e", " ", "y", ".", "y", "m", "l">>,
                       <<"b">> \o BlockTwo>>
    /\ Len(SeqCont(<<"b">>).items) = 4
    /\ SlotComments(SeqCont(<<"b">>)) = <<FALSE, TRUE>>

(***************************************************************************)
(* Variables whose names start alike.  The included file holds one string  *)
(* that refers to two variables; the documents that include it bind them,  *)
(* in one order or the other, at one level or at two                       *)
(***************************************************************************)

\* the files that the documents include: a string with `$a` and `$ab`, a
\* string with `$a` and `$b`, and two includes of the first that bind one of
\* its variables and leave the other open
PrefixFiles ==
       (<<"/", "w", "/", "p", ".", "y", "m", "l">> :>
           <<"a", ":", " ", "\"", "$", "a", "-", "$", "a", "b", "\"", "\n">>)
    @@ (<<"/", "w", "/", "c", ".", "y", "m", "l">> :>
           <<"a", ":", " ", "\"", "$", "a", "-", "$", "b", "\"", "\n">>)
    @@ (<<"/", "w", "/", "u", ".", "y", "m", "l">> :>
           <<"!", "i", "n", "c", "l", "u", "d", "e", " ", "p", ".", "y", "m", "l", "\n", "$", "a", ":", " ", "1", "\n">>)
    @@ (<<"/", "w", "/", "i", ".", "y", "m", "l">> :>
           <<"!", "i", "n", "c", "l", "u", "d", "e", " ", "p", ".", "y", "m", "l", "\n", "$", "a", "b", ":", " ", "2", "\n">>)

PrefixIncludes ==
    { <<"!", "i", "n", "c", "l", "u", "d", "e", " ", "p", ".", "y", "m", "l">>,
      <<"!", "i", "n", "c", "l", "u", "d", "e", " ", "c", ".", "y", "m", "l">>,
      <<"!", "i", "n", "c", "l", "u", "d", "e", " ", "u", ".", "y", "m", "l">>,
      <<"!", "i", "n", "c", "l", "u", "d", "e", " ", "i", ".", "y", "m", "l">> }

PrefixSettings ==
    { <<"$", "a", ":", " ", "1">>,
      <<"$", "a", ":", " ", "x">>,
      <<"$", "a", "b", ":", " ", "2">>,
      <<"$", "a", "b", ":", " ", "y">>,
      <<"$", "b", ":", " ", "3">> }

InitPrefix ==
    /\ input \in {[root |-> RootPath, lines |-> <<h>> \o t,
                   flags |-> DefaultFlags, files |-> PrefixFiles] :
                      h \in PrefixIncludes,
                      t \in {<<>>} \cup UNION {[1..n -> PrefixSettings] :
                                                 n \in 1..MaxSettings}}
    /\ Start

NextPrefix == Parse

SpecPrefix == InitPrefix /\ [][NextPrefix]_vars

(***************************************************************************)
(* Properties of SpecPrefix.  The string is expanded again from the lines  *)
(* of the files, reference by reference                                    *)
(***************************************************************************)

\* the lines that set variables for the string: those of the included file,
\* when it is itself an include, and those of the root file
AllSettings ==
    LET ls == SplitLines(input.files[IncludedPath(input.lines[1])])
    IN (IF IsInclude(ls[1]) THEN SettingsOf(ls) ELSE <<>>)
       \o SettingsOf(input.lines)

\* the string of the leaf file, between its quotes
Template ==
    LET t == SettingText(SplitLines(input.files[LeafFile])[1])
    IN SubSeq(t, 2, Len(t) - 1)

\* the string s from position i on, each reference `$name` replaced by the
\* value that the settings give to the variable of that very name
RECURSIVE Expand(_, _, _)
Expand(s, i, settings) ==
    IF i > Len(s) THEN <<>>
    ELSE IF s[i] # "$" THEN <<s[i]>> \o Expand(s, i + 1, settings)
    ELSE LET stop == SpanAlnum(s, i + 1)
             name == SubSeq(s, i + 1, stop - 1)
             set == {k \in 1..Len(settings) : SettingName(settings[k]) = name}
         IN (IF set = {} THEN SubSeq(s, i, stop - 1)
             ELSE SettingText(settings[CHOOSE k \in set : TRUE]))
            \o Expand(s, stop, settings)

\* C24: once the variables of the string are bound, each reference holds
\* the value of its own variable, whatever the order of the settings: the
\* reference `$ab` is not a reference to a
PrefixesApart ==
    (step = "parsed" /\ env.res = 0) =>
        LET v == AtPath(Tree(env, env.ret), <<".", "a">>)
        IN /\ v.type = "scalar" /\ v.stype = "string"
           /\ v.s = Expand(Template, 1, AllSettings)

(***************************************************************************)
(* Strings set by the owner of the AST.  A scalar of a parsed document is  *)
(* given a string with yaml_data_set_string, the AST is packed and the     *)
(* output parsed                                                           *)
(***************************************************************************)

MaxString == 2

\* the characters of the strings: a digit, a letter and characters that
\* have a meaning of their own in a document
StringChars == {"1", "a", "$", " ", ",", "-", "~", ":"}

\* the strings of at most MaxString characters, and some words
StringValues ==
    UNION {[1..n -> StringChars] : n \in 0..MaxString}
    \cup { <<"t", "r", "u", "e">>, <<"n", "u", "l", "l">>,
           <<".", "i", "n", "f">>, <<"a", ":", " ", "1">>,
           <<"#", "a">>, <<"a", "]">> }

\* yaml_data_set_string on a scalar of the AST returned by t_yaml_parse
SetString ==
    /\ step = "parsed"
    /\ env.res = 0
    /\ \E slot \in ScalarSlots(env, env.ret) :
           \E s \in StringValues :
               env' = [env EXCEPT !.mem[slot] =
                          [ClearData EXCEPT !.type = "scalar",
                                            !.stype = "string", !.s = s]]
    /\ aux' = [aux EXCEPT !.mutated = @ + 1]
    /\ step' = "mutated"
    /\ UNCHANGED <<fs, input, pack>>

NextString == Parse \/ SetString \/ Pack \/ Reparse

\* the documents: a scalar alone, the value of a key, an element of a
\* block sequence and of a flow sequence
StringDocs ==
    { <<"x">>, <<"a", ":", " ", "x">>, <<"-", " ", "x">>,
      <<"[", " ", "x", " ", "]">> }

InitString ==
    /\ input \in {[root |-> RootPath, lines |-> <<l>>, flags |-> DefaultFlags,
                   files |-> <<>>] : l \in StringDocs}
    /\ Start

SpecString == InitString /\ [][NextString]_vars

\* C25: a string set in the AST is read back as that string: the output of
\* pack parses, and its AST is the AST packed, the scalar a string scalar
\* with the same characters
StringsReadBack ==
    (step = "done" /\ aux.mutated = 1) =>
        /\ aux.res = 0
        /\ aux.tree = Tree(env, env.ret)

(***************************************************************************)
(* Variables bound through several levels.  The included file refers to a  *)
(* variable; an intermediate file includes it and gives the variable a     *)
(* value, which can itself refer to a variable that the root file binds    *)
(***************************************************************************)

\* the files that the documents include: one reference, and three includes
\* of it that set the variable to a number, to a reference and to a string
\* holding a reference
ChainFiles ==
       (<<"/", "w", "/", "k", ".", "y", "m", "l">> :>
           <<"a", ":", " ", "$", "v", "\n">>)
    @@ (<<"/", "w", "/", "n", ".", "y", "m", "l">> :>
           <<"!", "i", "n", "c", "l", "u", "d", "e", " ", "k", ".", "y", "m", "l", "\n", "$", "v", ":", " ", "3", "\n">>)
    @@ (<<"/", "w", "/", "m", ".", "y", "m", "l">> :>
           <<"!", "i", "n", "c", "l", "u", "d", "e", " ", "k", ".", "y", "m", "l", "\n", "$", "v", ":", " ", "$", "w", "\n">>)
    @@ (<<"/", "w", "/", "t", ".", "y", "m", "l">> :>
           <<"!", "i", "n", "c", "l", "u", "d", "e", " ", "k", ".", "y", "m", "l", "\n", "$", "v", ":", " ", "\"", "<", "$", "w", ">", "\"", "\n">>)

ChainIncludes ==
    { <<"!", "i", "n", "c", "l", "u", "d", "e", " ", "k", ".", "y", "m", "l">>,
      <<"!", "i", "n", "c", "l", "u", "d", "e", " ", "n", ".", "y", "m", "l">>,
      <<"!", "i", "n", "c", "l", "u", "d", "e", " ", "m", ".", "y", "m", "l">>,
      <<"!", "i", "n", "c", "l", "u", "d", "e", " ", "t", ".", "y", "m", "l">> }

ChainSettings ==
    { <<"$", "w", ":", " ", "4">>,
      <<"$", "w", ":", " ", "x">>,
      <<"$", "w", ":", " ", "[", " ", "7", " ", "]">>,
      <<"$", "v", ":", " ", "5">>,
      <<"a", ":", " ", "9">> }

InitChain ==
    /\ input \in {[root |-> RootPath, lines |-> <<h>> \o t,
                   flags |-> DefaultFlags, files |-> ChainFiles] :
                      h \in ChainIncludes,
                      t \in {<<>>} \cup UNION {[1..n -> ChainSettings] :
                                                 n \in 1..MaxSettings}}
    /\ Start

NextChain == Parse

SpecChain == InitChain /\ [][NextChain]_vars

\* a leaf of the AST still holds a reference to a variable
RECURSIVE HoldsReference(_)
HoldsReference(t) ==
    IF t.type = "scalar"
    THEN t.stype = "string" /\ \E i \in 1..Len(t.s) : t.s[i] = "$"
    ELSE IF t.type \in {"seq", "obj"}
    THEN \E i \in 1..Len(t.items) : HoldsReference(t.items[i].val)
    ELSE FALSE

\* C26: a parse that succeeds with no variable left unbound returns an AST
\* where every reference has been substituted: no leaf holds `$name` any
\* more, also when the value that a file gives to a variable refers to a
\* variable bound by the file that includes it
ReferencesSubstituted ==
    (step = "parsed" /\ env.res = 0) => ~HoldsReference(Tree(env, env.ret))

(***************************************************************************)
(* Inline comments.  The documents hold comments after a key, a dash, a    *)
(* tag, an opening bracket and a scalar                                    *)
(***************************************************************************)

CommentDocLines ==
    { <<"a", ":", " ", "#", " ", "c">>,
      <<"a", ":", " ", "1", " ", "#", " ", "c">>,
      <<" ", " ", "!", "t", " ", "#", " ", "d">>,
      <<" ", " ", "1">>,
      <<" ", " ", "[", " ", "#", " ", "d">>,
      <<" ", " ", "1", " ", "]">>,
      <<"!", "t", " ", "#", " ", "c">>,
      <<"[", " ", "#", " ", "c">>,
      <<"-", " ", "#", " ", "c">>,
      <<" ", " ", "-", " ", "1", " ", "#", " ", "d">>,
      <<"#", " ", "k">> }

InitComment ==
    /\ input \in {[root |-> RootPath, lines |-> ls, flags |-> DefaultFlags,
                   files |-> <<>>] : ls \in LineSeqs(CommentDocLines)}
    /\ Start

NextComment == Parse

SpecComment == InitComment /\ [][NextComment]_vars

\* C27: the parse of a document with presentation generation fails no
\* assertion on its inline comments: when a comment is recorded as inline, a
\* last node exists and has no inline comment yet
InlineCommentsAsserted ==
    step = "parsed" => env.res # Crashed

(***************************************************************************)
(* Packing in a file.  The AST of a document with an include is packed     *)
(* with t_yaml_pack_file, in a file of the output directory whose name the *)
(* caller chooses                                                          *)
(***************************************************************************)

\* the names the caller gives to the file of the root document: the name it
\* was parsed from, the names of files it can include, a name in a
\* subdirectory
PackFileNames ==
    { <<"r", ".", "y", "m", "l">>, <<"s", ".", "y", "m", "l">>,
      <<"g", ".", "y", "m", "l">>, <<"d", "/", "r", ".", "y", "m", "l">> }

\* t_yaml_pack_env_new, t_yaml_pack_env_set_presentation and
\* t_yaml_pack_file
PackFile ==
    /\ step \in {"parsed", "mutated"}
    /\ env.res = 0
    /\ \E name \in PackFileNames :
           pack' = t_yaml_pack_file(
                       t_yaml_pack_env_set_presentation(
                           t_yaml_pack_env_new(env, fs),
                           t_yaml_data_get_presentation(env, env.ret)),
                       OutDir \o <<"/">> \o name, env.ret)
    /\ step' = "packed"
    /\ UNCHANGED <<fs, input, env, aux>>

NextFile == Parse \/ Mutate \/ PackFile

SpecFile == InitDir /\ [][NextFile]_vars

\* C28: the files written by one call of t_yaml_pack_file: no path receives
\* two different documents, and the path of the root file receives no
\* subfile
OnePathOneDocument ==
    (step = "packed" /\ pack.res = 0) =>
        \A i, j \in 1..Len(pack.written) :
            pack.written[i].path = pack.written[j].path =>
                pack.written[i].contents = pack.written[j].contents

\* C29: an include with variables, packed with an output directory after
\* assignments to scalars of the AST: the root document and the subfiles
\* written, parsed again, give the AST that was packed, each leaf that was a
\* reference to a variable holding the value it had when packed
VariableSitesPreserved ==
    (step = "packed" /\ pack.res = 0) => PackedTree = Tree(env, env.ret)

(***************************************************************************)
(* The chains of nested includes (SpecInclude)                             *)
(***************************************************************************)

\* no path twice in the chain
Distinct(c) == \A j, k \in 1..Len(c) : j # k => c[j] # c[k]

\* the chains of the parse: that of every file opened, the file first and
\* the root file last
Chains == {env.opened[i] : i \in 1..Len(env.opened)}

\* C30: the parse of a file of a finite disk ends, with a success or with an
\* error; no chain of nested includes holds a file twice, and none is longer
\* than the number of files of the disk
IncludeChainsFinite ==
    step = "parsed" =>
        /\ env.res \in {0, -1}
        /\ \A c \in Chains :
               /\ Distinct(c)
               /\ Len(c) <= Cardinality(DOMAIN fs)
               /\ \A j \in 1..Len(c) : c[j] \in DOMAIN fs

\* a subfile of a subfile has been parsed, three files deep, and a later
\* include that names the root file again has been rejected as a loop
IncludeChainsFiniteWitness ==
    /\ step = "parsed"
    /\ env.res = -1
    /\ env.out_err.msg = "inclusion loop detected"
    /\ \E c \in Chains : Len(c) = 3

====
